---------------------------- MODULE Spec2Model ----------------------------
(***************************************************************************)
(* A model of the reflect.Value layer (src/src/reflect/value.go) on a      *)
(* host with 16-bit pointers (value.go names these hosts in Float and      *)
(* Complex): a byte-addressed memory, handles (typecode, value, flags)     *)
(* and the operations of value.go computed on them.  A 16-bit word keeps   *)
(* every number of the model inside the model checker's integers; int32    *)
(* plays the part of the scalar wider than a word.  The type descriptors,  *)
(* the allocator and the hashmap engine are collaborators outside          *)
(* value.go and are modelled at their interface.  The last sections model  *)
(* the two exported entry points of the wasm scheduler                     *)
(* (src/unnamed/part_000) and their guard wasmNested.                      *)
(***************************************************************************)
EXTENDS Integers, Sequences, FiniteSets, TLC

VARIABLES
    mem,     \* the byte memory: mem[a] is the byte at address a, 0 is nil
    maps,    \* the hashmap engine's maps, by the address of each map
    h,       \* the handle the program currently holds
    x,       \* the handle the program's last map read returned
    iter,    \* the MapIter the program holds (live = FALSE: none)
    last,    \* the last call: its name and how it ended
    steps,   \* the number of calls made so far
    stored,  \* history: the pairs <<key, element>> the program put in each map
    yielded, \* history: the entries the iterator yielded since MapRange
    lastNext, \* history: what the last Next of the iterator returned
    wasmNested, \* the guard of the wasm entry points
    stack,    \* the calls of resume and go_scheduler in progress, outermost first
    runqueue, \* the tasks that wait to run
    entered   \* history: the calls made of each entry point, the tasks spawned

schedVars == <<wasmNested, stack, runqueue, entered>>

vars == <<mem, maps, h, x, iter, last, steps, stored, yielded, lastNext,
          wasmNested, stack, runqueue, entered>>

(***************************************************************************)
(* Bounds of the model.                                                    *)
(***************************************************************************)
MaxSteps == 3
MaxIdx == 3
MemLimit == 200

(***************************************************************************)
(* The machine word.                                                       *)
(***************************************************************************)
PtrSize == 2
WordMod == 256 * 256
zerobufferLen == 32

valueFlagIndirect == {"Indirect"}
valueFlagExported == {"Exported"}

Min(a, b) == IF a < b THEN a ELSE b

Pow256(n) == CASE n = 0 -> 1 [] n = 1 -> 256 [] n = 2 -> 65536
               [] OTHER -> 16777216

\* uintptr(i) of an int i
ToUintptr(i) == i % WordMod

\* the little-endian bytes of n, size bytes of them
LE(n, size) == [k \in 1..size |-> (n \div Pow256(k - 1)) % 256]

RECURSIVE FromLE(_)
FromLE(bs) == IF bs = <<>> THEN 0 ELSE Head(bs) + 256 * FromLE(Tail(bs))

\* the signed number that little-endian bytes hold (at most 4 of them)
SignedLE(bs) ==
    LET n == Len(bs)
        top == IF bs[n] >= 128 THEN bs[n] - 256 ELSE bs[n]
    IN  FromLE(SubSeq(bs, 1, n - 1)) + Pow256(n - 1) * top

Zeros(n) == [k \in 1..n |-> 0]

(***************************************************************************)
(* Memory.                                                                 *)
(***************************************************************************)
ValidRange(m, a, n) == n = 0 \/ (a >= 1 /\ a + n - 1 <= Len(m))

Load(m, a, n) == [k \in 1..n |-> m[a + k - 1]]

LoadWord(m, a) == FromLE(Load(m, a, PtrSize))

Store(m, a, bs) ==
    [k \in 1..Len(m) |-> IF k >= a /\ k < a + Len(bs) THEN bs[k - a + 1] ELSE m[k]]

\* runtime.alloc: fresh zeroed memory that aliases nothing
AllocAddr(m) == Len(m) + 1
AllocMem(m, size) == m \o Zeros(size)

\* runtime.memcpy
memcpy(m, dst, bs) == Store(m, dst, bs)


(***************************************************************************)
(* Type descriptors.  A type is a named descriptor or a pointer to one     *)
(* (ptr counts the stars); the nil descriptor has the empty name.          *)
(***************************************************************************)
Ty(n) == [name |-> n, ptr |-> 0]
NilType == Ty("")

Fld(n, t, off, pkg) == [name |-> n, typ |-> Ty(t), offset |-> off, pkgPath |-> pkg]

Desc(k, sz, el, ky, ln, fs, bin) ==
    [kind |-> k, size |-> sz, elem |-> Ty(el), key |-> Ty(ky), len |-> ln,
     fields |-> fs, binary |-> bin]

TypeOrder == <<"bool", "uint8", "int16", "int32", "string", "iface",
               "[]int16", "[]uint8", "[2]uint8", "[3]int16", "S", "P", "O",
               "map[uint8]int16", "map[string]int16", "map[iface]int16">>

TypeNames == {TypeOrder[k] : k \in 1..Len(TypeOrder)}

TypeTable ==
    [n \in TypeNames |->
       CASE n = "bool"    -> Desc("Bool", 1, "", "", 0, <<>>, TRUE)
         [] n = "uint8"   -> Desc("Uint8", 1, "", "", 0, <<>>, TRUE)
         [] n = "int16"   -> Desc("Int16", 2, "", "", 0, <<>>, TRUE)
         [] n = "int32"   -> Desc("Int32", 4, "", "", 0, <<>>, TRUE)
         [] n = "string"  -> Desc("String", 4, "", "", 0, <<>>, FALSE)
         [] n = "iface"   -> Desc("Interface", 4, "", "", 0, <<>>, FALSE)
         [] n = "[]int16" -> Desc("Slice", 6, "int16", "", 0, <<>>, FALSE)
         [] n = "[]uint8" -> Desc("Slice", 6, "uint8", "", 0, <<>>, FALSE)
         [] n = "[2]uint8" -> Desc("Array", 2, "uint8", "", 2, <<>>, TRUE)
         [] n = "[3]int16" -> Desc("Array", 6, "int16", "", 3, <<>>, TRUE)
         [] n = "S" -> Desc("Struct", 4, "", "", 0,
                            <<Fld("A", "int16", 0, ""), Fld("b", "int16", 2, "main")>>, TRUE)
         [] n = "P" -> Desc("Struct", 2, "", "", 0,
                            <<Fld("X", "uint8", 0, ""), Fld("y", "uint8", 1, "main")>>, TRUE)
         [] n = "O" -> Desc("Struct", 12, "", "", 0,
                            <<Fld("in", "S", 0, "main"),
                              Fld("m", "map[uint8]int16", 4, "main"),
                              Fld("sl", "[]int16", 6, "main")>>, FALSE)
         [] n = "map[uint8]int16"  -> Desc("Map", 2, "int16", "uint8", 0, <<>>, FALSE)
         [] n = "map[string]int16" -> Desc("Map", 2, "int16", "string", 0, <<>>, FALSE)
         [] n = "map[iface]int16"  -> Desc("Map", 2, "int16", "iface", 0, <<>>, FALSE)]

Kind(t) == IF t = NilType THEN "Invalid"
           ELSE IF t.ptr > 0 THEN "Ptr" ELSE TypeTable[t.name].kind

Size(t) == IF t.ptr > 0 THEN PtrSize ELSE TypeTable[t.name].size

elem(t) == IF t.ptr > 0 THEN [t EXCEPT !.ptr = @ - 1] ELSE TypeTable[t.name].elem

key(t) == TypeTable[t.name].key

TypeLen(t) == TypeTable[t.name].len

NumFieldOf(t) == Len(TypeTable[t.name].fields)

rawField(t, i) == TypeTable[t.name].fields[i + 1]

pointerTo(t) == [t EXCEPT !.ptr = @ + 1]

isBinary(t) == t.ptr > 0 \/ TypeTable[t.name].binary

\* A is assignable to B: the same type, or B is the empty interface
AssignableTo(a, b) == a = b \/ Kind(b) = "Interface"

\* the address of a type descriptor, as an interface value in memory holds it
TypeBase == 4096
MaxPtrDepth == 8

TypeIndex(n) == CHOOSE k \in 1..Len(TypeOrder) : TypeOrder[k] = n

TypeAddr(t) == IF t = NilType THEN 0
               ELSE TypeBase + MaxPtrDepth * TypeIndex(t.name) + t.ptr

TypeAt(a) == IF a < TypeBase + MaxPtrDepth
                \/ a >= TypeBase + MaxPtrDepth * (Len(TypeOrder) + 1)
             THEN NilType
             ELSE [name |-> TypeOrder[(a - TypeBase) \div MaxPtrDepth],
                   ptr |-> (a - TypeBase) % MaxPtrDepth]

(***************************************************************************)
(* Handles.                                                                *)
(***************************************************************************)
Val(t, v, f) == [typecode |-> t, value |-> v, flags |-> f]

\* Value{}
ZeroValue == Val(NilType, 0, {})

isIndirect(v) == (v.flags \cap valueFlagIndirect) # {}

isExported(v) == (v.flags \cap valueFlagExported) # {}

VKind(v) == Kind(v.typecode)

IsValid(v) == v.typecode # NilType

CanInterface(v) == isExported(v)

CanAddr(v) == (v.flags \cap valueFlagIndirect) = valueFlagIndirect

CanSet(v) == (v.flags \cap (valueFlagExported \cup valueFlagIndirect))
                = (valueFlagExported \cup valueFlagIndirect)

\* the result of a call: how it ended, the handle (or scalar) it returned and
\* the memory it left
Res(e, v, m) == [err |-> e, v |-> v, mem |-> m]
Ok(v, m) == Res("ok", v, m)
Fail(e, m) == Res(e, ZeroValue, m)

(***************************************************************************)
(* The raw headers (sliceHeader, stringHeader) as they lie in memory.      *)
(***************************************************************************)
SliceHeaderSize == 3 * PtrSize
StringHeaderSize == 2 * PtrSize

sliceHeader(d, l, c) == [data |-> d, len |-> l, cap |-> c]
stringHeader(d, l) == [data |-> d, len |-> l]

LoadSliceHeader(m, a) ==
    sliceHeader(LoadWord(m, a), LoadWord(m, a + PtrSize), LoadWord(m, a + 2 * PtrSize))

LoadStringHeader(m, a) == stringHeader(LoadWord(m, a), LoadWord(m, a + PtrSize))

SliceHeaderBytes(hd) == LE(hd.data, PtrSize) \o LE(hd.len, PtrSize) \o LE(hd.cap, PtrSize)

StringHeaderBytes(hd) == LE(hd.data, PtrSize) \o LE(hd.len, PtrSize)

\* unsafe.Add
Add(p, n) == (p + n) % WordMod

\* a local header that escapes: it is placed in fresh memory
NewSliceHeader(m, hd) ==
    [addr |-> AllocAddr(m), mem |-> m \o SliceHeaderBytes(hd)]

NewStringHeader(m, hd) ==
    [addr |-> AllocAddr(m), mem |-> m \o StringHeaderBytes(hd)]

(***************************************************************************)
(* Value.pointer, Len, Cap.                                                *)
(***************************************************************************)
\* v.pointer(): the pointer a Ptr, Map or Chan handle represents
pointer(m, v) == IF isIndirect(v) THEN LoadWord(m, v.value) ELSE v.value

\* the handle's own bytes can be read where it says they are
Readable(m, v) ==
    IF isIndirect(v) \/ Size(v.typecode) > PtrSize
    THEN ValidRange(m, v.value, Size(v.typecode))
    ELSE TRUE

\* runtime.hashmapLen
maplen(ms, p) == IF p \in DOMAIN ms THEN Len(ms[p].entries) ELSE 0

Len_(m, ms, v) ==
    CASE VKind(v) = "Array"  -> [err |-> "ok", n |-> TypeLen(v.typecode)]
      [] VKind(v) = "Map"    -> IF Readable(m, v)
                                THEN [err |-> "ok", n |-> maplen(ms, pointer(m, v))]
                                ELSE [err |-> "Fault", n |-> 0]
      [] VKind(v) = "Slice"  -> IF ValidRange(m, v.value, SliceHeaderSize)
                                THEN [err |-> "ok", n |-> LoadSliceHeader(m, v.value).len]
                                ELSE [err |-> "Fault", n |-> 0]
      [] VKind(v) = "String" -> IF ValidRange(m, v.value, StringHeaderSize)
                                THEN [err |-> "ok", n |-> LoadStringHeader(m, v.value).len]
                                ELSE [err |-> "Fault", n |-> 0]
      [] OTHER -> [err |-> "KindMismatch", n |-> 0]

Cap_(m, v) ==
    CASE VKind(v) = "Array"  -> [err |-> "ok", n |-> TypeLen(v.typecode)]
      [] VKind(v) = "Slice"  -> IF ValidRange(m, v.value, SliceHeaderSize)
                                THEN [err |-> "ok", n |-> LoadSliceHeader(m, v.value).cap]
                                ELSE [err |-> "Fault", n |-> 0]
      [] OTHER -> [err |-> "KindMismatch", n |-> 0]

(***************************************************************************)
(* Navigation: Addr, Elem, Field, Index, Slice, Slice3.                    *)
(***************************************************************************)
XorFlags(f, g) == (f \ g) \cup (g \ f)

Addr(m, v) ==
    IF ~CanAddr(v) THEN Fail("NotAddressable", m)
    ELSE Ok(Val(pointerTo(v.typecode), v.value, XorFlags(v.flags, valueFlagIndirect)), m)

Elem(m, v) ==
    CASE VKind(v) = "Ptr" ->
           IF ~Readable(m, v) THEN Fail("Fault", m)
           ELSE LET ptr == pointer(m, v)
                IN  IF ptr = 0 THEN Ok(ZeroValue, m)
                    ELSE Ok(Val(elem(v.typecode), ptr, v.flags \cup valueFlagIndirect), m)
      [] VKind(v) = "Interface" ->
           IF ~ValidRange(m, v.value, 2 * PtrSize) THEN Fail("Fault", m)
           ELSE Ok(Val(TypeAt(LoadWord(m, v.value)), LoadWord(m, v.value + PtrSize),
                       v.flags \ valueFlagIndirect), m)
      [] OTHER -> Fail("KindMismatch", m)

\* loadValue: size bytes at ptr, little-endian, as a uintptr
loadValue(m, ptr, size) == FromLE(Load(m, ptr, size))

\* maskAndShift: a shift by the full word width yields 0
maskAndShift(value, offset, size) ==
    LET mask == IF size = 0 \/ size > PtrSize THEN 0 ELSE Pow256(size) - 1
        shifted == IF offset >= PtrSize THEN 0 ELSE value \div Pow256(offset)
    IN  shifted % (mask + 1)

\* Field without the clearing of the Exported flag for a field that has a
\* package path
FieldKeepsExported(m, v, i) ==
    IF VKind(v) # "Struct" THEN Fail("KindMismatch", m)
    ELSE IF i < 0 \/ i >= NumFieldOf(v.typecode) THEN Fail("IndexOutOfRange", m)
    ELSE
      LET structField == rawField(v.typecode, i)
          flags == v.flags
          size == Size(v.typecode)
          fieldType == structField.typ
          fieldSize == Size(fieldType)
      IN  IF isIndirect(v) \/ fieldSize > PtrSize
          THEN Ok(Val(fieldType, Add(v.value, structField.offset), flags), m)
          ELSE IF fieldSize = 0 THEN Ok(Val(fieldType, 0, flags), m)
          ELSE IF size > PtrSize
          THEN LET ptr == Add(v.value, structField.offset)
               IN  IF ~ValidRange(m, ptr, fieldSize) THEN Fail("Fault", m)
                   ELSE Ok(Val(fieldType, loadValue(m, ptr, fieldSize),
                               flags \ valueFlagIndirect), m)
          ELSE Ok(Val(fieldType,
                      maskAndShift(v.value, structField.offset, fieldSize), flags), m)

Field(m, v, i) ==
    IF VKind(v) # "Struct" THEN Fail("KindMismatch", m)
    ELSE IF i < 0 \/ i >= NumFieldOf(v.typecode) THEN Fail("IndexOutOfRange", m)
    ELSE
      LET structField == rawField(v.typecode, i)
          flags == IF structField.pkgPath # "" THEN v.flags \ valueFlagExported
                   ELSE v.flags
          size == Size(v.typecode)
          fieldType == structField.typ
          fieldSize == Size(fieldType)
      IN  IF isIndirect(v) \/ fieldSize > PtrSize
          THEN Ok(Val(fieldType, Add(v.value, structField.offset), flags), m)
          ELSE IF fieldSize = 0 THEN Ok(Val(fieldType, 0, flags), m)
          ELSE IF size > PtrSize
          THEN LET ptr == Add(v.value, structField.offset)
               IN  IF ~ValidRange(m, ptr, fieldSize) THEN Fail("Fault", m)
                   ELSE Ok(Val(fieldType, loadValue(m, ptr, fieldSize),
                               flags \ valueFlagIndirect), m)
          ELSE Ok(Val(fieldType,
                      maskAndShift(v.value, structField.offset, fieldSize), flags), m)

uint8Type == Ty("uint8")

\* Index on a slice that lets the index equal to the length through
IndexSliceUpToLen(m, v, i) ==
    IF ~ValidRange(m, v.value, SliceHeaderSize) THEN Fail("Fault", m)
    ELSE LET slice == LoadSliceHeader(m, v.value)
             et == elem(v.typecode)
         IN  IF ToUintptr(i) > slice.len THEN Fail("IndexOutOfRange", m)
             ELSE Ok(Val(et, Add(slice.data, Size(et) * ToUintptr(i)),
                         v.flags \cup valueFlagIndirect), m)

IndexSlice(m, v, i) ==
    IF ~ValidRange(m, v.value, SliceHeaderSize) THEN Fail("Fault", m)
    ELSE LET slice == LoadSliceHeader(m, v.value)
             et == elem(v.typecode)
         IN  IF ToUintptr(i) >= slice.len THEN Fail("IndexOutOfRange", m)
             ELSE Ok(Val(et, Add(slice.data, Size(et) * ToUintptr(i)),
                         v.flags \cup valueFlagIndirect), m)

\* Index on a string that returns the byte as Index on a slice returns an
\* element: by its address, with the Indirect flag set
IndexStringByAddress(m, v, i) ==
    IF ~ValidRange(m, v.value, StringHeaderSize) THEN Fail("Fault", m)
    ELSE LET s == LoadStringHeader(m, v.value)
         IN  IF ToUintptr(i) >= s.len THEN Fail("IndexOutOfRange", m)
             ELSE IF ~ValidRange(m, Add(s.data, i), 1) THEN Fail("Fault", m)
             ELSE Ok(Val(uint8Type, Add(s.data, i), v.flags \cup valueFlagIndirect), m)

IndexString(m, v, i) ==
    IF ~ValidRange(m, v.value, StringHeaderSize) THEN Fail("Fault", m)
    ELSE LET s == LoadStringHeader(m, v.value)
         IN  IF ToUintptr(i) >= s.len THEN Fail("IndexOutOfRange", m)
             ELSE IF ~ValidRange(m, Add(s.data, i), 1) THEN Fail("Fault", m)
             ELSE Ok(Val(uint8Type, m[Add(s.data, i)], v.flags \cap valueFlagExported), m)

IndexArray(m, v, i) ==
    LET elemType == elem(v.typecode)
        elemSize == Size(elemType)
        size == Size(v.typecode)
        addr == Add(v.value, (elemSize * ToUintptr(i)) % WordMod)
    IN  IF size = 0 THEN Ok(Val(elemType, 0, v.flags), m)
        ELSE IF elemSize > PtrSize THEN Ok(Val(elemType, addr, v.flags), m)
        ELSE IF size > PtrSize \/ isIndirect(v)
        THEN IF isIndirect(v) THEN Ok(Val(elemType, addr, v.flags), m)
             ELSE IF ~ValidRange(m, addr, elemSize) THEN Fail("Fault", m)
             ELSE Ok(Val(elemType, loadValue(m, addr, elemSize), v.flags), m)
        ELSE Ok(Val(elemType,
                    maskAndShift(v.value, (elemSize * ToUintptr(i)) % WordMod, elemSize),
                    v.flags), m)

Index(m, v, i) ==
    CASE VKind(v) = "Slice"  -> IndexSlice(m, v, i)
      [] VKind(v) = "String" -> IndexString(m, v, i)
      [] VKind(v) = "Array"  -> IndexArray(m, v, i)
      [] OTHER -> Fail("KindMismatch", m)

Slice(m, v, i0, j0) ==
    LET i == ToUintptr(i0)
        j == ToUintptr(j0)
    IN
    CASE VKind(v) = "Slice" ->
           IF ~ValidRange(m, v.value, SliceHeaderSize) THEN Fail("Fault", m)
           ELSE LET hdr == LoadSliceHeader(m, v.value)
                    elemSize == Size(elem(v.typecode))
                IN  IF j < i \/ hdr.cap < j THEN Fail("SliceBounds", m)
                    ELSE LET nh == NewSliceHeader(m,
                                     sliceHeader(Add(hdr.data, (i * elemSize) % WordMod),
                                                 j - i, hdr.cap - i))
                         IN  Ok(Val(v.typecode, nh.addr, v.flags), nh.mem)
      [] VKind(v) = "String" ->
           IF ~ValidRange(m, v.value, StringHeaderSize) THEN Fail("Fault", m)
           ELSE LET str == LoadStringHeader(m, v.value)
                IN  IF j < i \/ str.len < j THEN Fail("SliceBounds", m)
                    ELSE LET nh == NewStringHeader(m, stringHeader(Add(str.data, i), j - i))
                         IN  Ok(Val(v.typecode, nh.addr, v.flags), nh.mem)
      [] OTHER -> Fail("KindMismatch", m)

Slice3(m, v, i0, j0, k0) ==
    LET i == ToUintptr(i0)
        j == ToUintptr(j0)
        k == ToUintptr(k0)
    IN
    IF VKind(v) = "Slice"
    THEN IF ~ValidRange(m, v.value, SliceHeaderSize) THEN Fail("Fault", m)
         ELSE LET hdr == LoadSliceHeader(m, v.value)
                  elemSize == Size(elem(v.typecode))
              IN  IF j < i \/ k < j \/ hdr.len < k THEN Fail("SliceBounds", m)
                  ELSE LET nh == NewSliceHeader(m,
                                   sliceHeader(Add(hdr.data, (i * elemSize) % WordMod),
                                               j - i, k - i))
                       IN  Ok(Val(v.typecode, nh.addr, v.flags), nh.mem)
    ELSE Fail("Unimplemented", m)

(***************************************************************************)
(* Scalar readers.  A reader returns [err, val].                           *)
(***************************************************************************)
Got(x0) == [err |-> "ok", val |-> x0]
NotGot(e) == [err |-> e, val |-> 0]

IntKinds == {"Int16", "Int32"}
UintKinds == {"Uint8"}

Bool(m, v) ==
    IF VKind(v) # "Bool" THEN NotGot("KindMismatch")
    ELSE IF isIndirect(v)
    THEN IF ValidRange(m, v.value, 1) THEN Got(m[v.value] # 0) ELSE NotGot("Fault")
    ELSE Got(v.value # 0)

Int_(m, v) ==
    IF VKind(v) \notin IntKinds THEN NotGot("KindMismatch")
    ELSE LET size == Size(v.typecode)
         IN  IF isIndirect(v) \/ size > PtrSize
             THEN IF ValidRange(m, v.value, size)
                  THEN Got(SignedLE(Load(m, v.value, size)))
                  ELSE NotGot("Fault")
             ELSE Got(SignedLE(LE(v.value, size)))

Uint(m, v) ==
    IF VKind(v) \notin UintKinds THEN NotGot("KindMismatch")
    ELSE LET size == Size(v.typecode)
         IN  IF isIndirect(v) \/ size > PtrSize
             THEN IF ValidRange(m, v.value, size)
                  THEN Got(FromLE(Load(m, v.value, size)))
                  ELSE NotGot("Fault")
             ELSE Got(v.value)

\* the bytes of the string a String handle holds
String(m, v) ==
    IF VKind(v) # "String" THEN Got(<<"<", v.typecode, " Value>">>)
    ELSE IF ~ValidRange(m, v.value, StringHeaderSize) THEN NotGot("Fault")
    ELSE LET hd == LoadStringHeader(m, v.value)
         IN  IF ValidRange(m, hd.data, hd.len) THEN Got(Load(m, hd.data, hd.len))
             ELSE NotGot("Fault")

\* the []byte header Bytes returns
Bytes(m, v) ==
    CASE VKind(v) = "Slice" ->
           IF Kind(elem(v.typecode)) # "Uint8" THEN NotGot("KindMismatch")
           ELSE IF ~ValidRange(m, v.value, SliceHeaderSize) THEN NotGot("Fault")
           ELSE Got(LoadSliceHeader(m, v.value))
      [] VKind(v) = "Array" ->
           IF ~isIndirect(v) THEN NotGot("NotAddressable")
           ELSE IF Kind(elem(v.typecode)) # "Uint8" THEN NotGot("KindMismatch")
           ELSE Got(sliceHeader(v.value, TypeLen(v.typecode), TypeLen(v.typecode)))
      [] OTHER -> NotGot("KindMismatch")

\* an interface value: the pair composeInterface makes
Iface(t, w) == [typecode |-> t, value |-> w]

\* valueInterfaceUnsafe without the loading of a small value that lies behind
\* a pointer
valueInterfaceKeepsPointer(m, v) ==
    IF VKind(v) = "Interface"
    THEN IF ValidRange(m, v.value, 2 * PtrSize)
         THEN Got(Iface(TypeAt(LoadWord(m, v.value)), LoadWord(m, v.value + PtrSize)))
         ELSE NotGot("Fault")
    ELSE Got(Iface(v.typecode, v.value))

valueInterfaceUnsafe(m, v) ==
    IF VKind(v) = "Interface"
    THEN IF ValidRange(m, v.value, 2 * PtrSize)
         THEN Got(Iface(TypeAt(LoadWord(m, v.value)), LoadWord(m, v.value + PtrSize)))
         ELSE NotGot("Fault")
    ELSE IF isIndirect(v) /\ Size(v.typecode) <= PtrSize
    THEN IF ValidRange(m, v.value, Size(v.typecode))
         THEN Got(Iface(v.typecode, FromLE(Load(m, v.value, Size(v.typecode)))))
         ELSE NotGot("Fault")
    ELSE Got(Iface(v.typecode, v.value))

Interface(m, v) ==
    IF ~isExported(v) THEN NotGot("NotAccessible")
    ELSE valueInterfaceUnsafe(m, v)

\* decomposeInterface, then the handle ValueOf makes of it
ValueOf(i) == Val(i.typecode, i.value, valueFlagExported)

\* IsNil and IsZero return [err, val]
IsNil(m, v) ==
    CASE VKind(v) \in {"Map", "Ptr"} ->
           IF Readable(m, v) THEN Got(pointer(m, v) = 0) ELSE NotGot("Fault")
      [] VKind(v) = "Slice" ->
           IF v.value = 0 THEN Got(TRUE)
           ELSE IF ~ValidRange(m, v.value, SliceHeaderSize) THEN NotGot("Fault")
           ELSE Got(LoadSliceHeader(m, v.value).data = 0)
      [] VKind(v) = "Interface" ->
           IF ~ValidRange(m, v.value, 2 * PtrSize) THEN NotGot("Fault")
           ELSE Got(LoadWord(m, v.value) = 0)
      [] OTHER -> NotGot("KindMismatch")

\* the answers of IsZero on the parts of an array or a struct, put together
AllZero(rs) ==
    IF \E r \in rs : r.err # "ok" THEN NotGot((CHOOSE r \in rs : r.err # "ok").err)
    ELSE Got(\A r \in rs : r.val)

RECURSIVE IsZero(_, _)
IsZero(m, v) ==
    CASE VKind(v) = "Bool" ->
           LET b == Bool(m, v) IN IF b.err = "ok" THEN Got(~b.val) ELSE b
      [] VKind(v) \in IntKinds ->
           LET n == Int_(m, v) IN IF n.err = "ok" THEN Got(n.val = 0) ELSE n
      [] VKind(v) \in UintKinds ->
           LET n == Uint(m, v) IN IF n.err = "ok" THEN Got(n.val = 0) ELSE n
      [] VKind(v) = "Array" ->
           AllZero({LET e == Index(m, v, i)
                    IN  IF e.err = "ok" THEN IsZero(m, e.v) ELSE NotGot(e.err) :
                      i \in 0..(TypeLen(v.typecode) - 1)})
      [] VKind(v) \in {"Interface", "Map", "Ptr", "Slice"} -> IsNil(m, v)
      [] VKind(v) = "String" ->
           LET n == Len_(m, <<>>, v) IN IF n.err = "ok" THEN Got(n.n = 0) ELSE NotGot(n.err)
      [] VKind(v) = "Struct" ->
           AllZero({LET e == Field(m, v, i)
                    IN  IF e.err = "ok" THEN IsZero(m, e.v) ELSE NotGot(e.err) :
                      i \in 0..(NumFieldOf(v.typecode) - 1)})
      [] OTHER -> NotGot("KindMismatch")

(***************************************************************************)
(* Writers: Set, SetBool, SetInt, SetUint, SetString, SetBytes, SetLen.    *)
(* A writer returns the memory it leaves and how it ended.                 *)
(***************************************************************************)
\* v.checkAddressable() lets the writer go on
checkAddressable(v) == isIndirect(v)

\* the bytes memcpy reads at xptr in Set
SetSource(m, v, x0) ==
    LET size == Size(v.typecode)
    IN  IF size <= PtrSize /\ ~isIndirect(x0)
        THEN [ok |-> TRUE, bytes |-> LE(x0.value, size)]
        ELSE IF ValidRange(m, x0.value, size)
        THEN [ok |-> TRUE, bytes |-> Load(m, x0.value, size)]
        ELSE [ok |-> FALSE, bytes |-> <<>>]

Set(m, v, x0) ==
    IF ~checkAddressable(v) THEN Fail("NotAddressable", m)
    ELSE IF ~AssignableTo(v.typecode, x0.typecode) THEN Fail("TypeMismatch", m)
    ELSE LET src == SetSource(m, v, x0)
         IN  IF ~src.ok \/ ~ValidRange(m, v.value, Size(v.typecode))
             THEN Fail("Fault", m)
             ELSE Ok(ZeroValue, memcpy(m, v.value, src.bytes))

\* a scalar writer: the store of bs at v.value when v's kind is one of kinds
ScalarSet(m, v, kinds, bs) ==
    IF ~checkAddressable(v) THEN Fail("NotAddressable", m)
    ELSE IF VKind(v) \notin kinds THEN Fail("KindMismatch", m)
    ELSE IF ~ValidRange(m, v.value, Len(bs)) THEN Fail("Fault", m)
    ELSE Ok(ZeroValue, Store(m, v.value, bs))

SetBool(m, v, b) == ScalarSet(m, v, {"Bool"}, <<IF b THEN 1 ELSE 0>>)

SetInt(m, v, n) == ScalarSet(m, v, IntKinds, LE(n, Size(v.typecode)))

SetUint(m, v, n) == ScalarSet(m, v, UintKinds, LE(n, Size(v.typecode)))

\* SetString(x), x the string whose header is hd
SetString(m, v, hd) == ScalarSet(m, v, {"String"}, StringHeaderBytes(hd))

\* SetBytes(x), x the []byte whose header is hd
SetBytes(m, v, hd) ==
    IF ~checkAddressable(v) THEN Fail("NotAddressable", m)
    ELSE IF VKind(v) # "Slice" \/ Kind(elem(v.typecode)) # "Uint8"
    THEN Fail("KindMismatch", m)
    ELSE IF ~ValidRange(m, v.value, SliceHeaderSize) THEN Fail("Fault", m)
    ELSE Ok(ZeroValue, Store(m, v.value, SliceHeaderBytes(hd)))

SetLen(m, v, n) ==
    IF VKind(v) # "Slice" THEN Fail("KindMismatch", m)
    ELSE IF ~ValidRange(m, v.value, SliceHeaderSize) THEN Fail("Fault", m)
    ELSE LET hdr == LoadSliceHeader(m, v.value)
         IN  IF ToUintptr(n) > hdr.cap THEN Fail("SliceBounds", m)
             ELSE Ok(ZeroValue, Store(m, v.value + PtrSize, LE(ToUintptr(n), PtrSize)))

(***************************************************************************)
(* Construction: New, Zero, MakeSlice.                                     *)
(***************************************************************************)
\* the shared buffer of zero bytes lies at the start of memory
zerobuffer == 1

New(m, typ) ==
    Ok(Val(pointerTo(typ), AllocAddr(m), valueFlagExported), AllocMem(m, Size(typ)))

\* Zero that hands out the shared buffer as an addressable value
ZeroAddressable(m, typ) ==
    IF Size(typ) <= PtrSize THEN Ok(Val(typ, 0, valueFlagExported), m)
    ELSE IF Size(typ) <= zerobufferLen
    THEN Ok(Val(typ, zerobuffer, valueFlagExported \cup valueFlagIndirect), m)
    ELSE Ok(Val(typ, AllocAddr(m), valueFlagExported), AllocMem(m, Size(typ)))

Zero(m, typ) ==
    IF Size(typ) <= PtrSize THEN Ok(Val(typ, 0, valueFlagExported), m)
    ELSE IF Size(typ) <= zerobufferLen THEN Ok(Val(typ, zerobuffer, valueFlagExported), m)
    ELSE Ok(Val(typ, AllocAddr(m), valueFlagExported), AllocMem(m, Size(typ)))

\* MakeSlice that gives the slice the capacity as its length
MakeSliceFull(m, typ, len, cap) ==
    IF Kind(typ) # "Slice" THEN Fail("KindMismatch", m)
    ELSE LET ulen == ToUintptr(len)
             ucap == ToUintptr(cap)
             elementSize == Size(elem(typ))
             maxSize == IF elementSize > 1
                        THEN ((WordMod - 1) \div 2) \div elementSize
                        ELSE (WordMod - 1) \div 2
         IN  IF ulen > ucap \/ ucap > maxSize THEN Fail("SliceBounds", m)
             ELSE LET data == AllocAddr(m)
                      m1 == AllocMem(m, ucap * elementSize)
                      nh == NewSliceHeader(m1, sliceHeader(data, ucap, ucap))
                  IN  Ok(Val(typ, nh.addr, valueFlagExported), nh.mem)

MakeSlice(m, typ, len, cap) ==
    IF Kind(typ) # "Slice" THEN Fail("KindMismatch", m)
    ELSE LET ulen == ToUintptr(len)
             ucap == ToUintptr(cap)
             elementSize == Size(elem(typ))
             maxSize == IF elementSize > 1
                        THEN ((WordMod - 1) \div 2) \div elementSize
                        ELSE (WordMod - 1) \div 2
         IN  IF ulen > ucap \/ ucap > maxSize THEN Fail("SliceBounds", m)
             ELSE LET data == AllocAddr(m)
                      m1 == AllocMem(m, ucap * elementSize)
                      nh == NewSliceHeader(m1, sliceHeader(data, ulen, ucap))
                  IN  Ok(Val(typ, nh.addr, valueFlagExported), nh.mem)

(***************************************************************************)
(* Growable slices: extendSlice, Append, AppendSlice, Copy, with the       *)
(* runtime's sliceGrow, sliceAppend and sliceCopy.                         *)
(***************************************************************************)
RECURSIVE BitsLen(_)
BitsLen(n) == IF n = 0 THEN 0 ELSE 1 + BitsLen(n \div 2)

RECURSIVE Pow2(_)
Pow2(n) == IF n = 0 THEN 1 ELSE 2 * Pow2(n - 1)

\* runtime.sliceGrow: the same buffer when it is big enough, else a fresh
\* one with the old elements copied forward
sliceGrow(m, buf, oldLen, oldCap, newCap, elemSize) ==
    IF oldCap >= newCap THEN [buf |-> buf, len |-> oldLen, cap |-> oldCap, mem |-> m]
    ELSE LET cap2 == Pow2(BitsLen(newCap))
             nbuf == AllocAddr(m)
             m1 == AllocMem(m, cap2 * elemSize)
         IN  [buf |-> nbuf, len |-> oldLen, cap |-> cap2,
              mem |-> Store(m1, nbuf, Load(m, buf, oldLen * elemSize))]

extendSlice(m, v, n) ==
    IF VKind(v) # "Slice" THEN Fail("KindMismatch", m)
    ELSE LET old == IF v.value # 0 THEN LoadSliceHeader(m, v.value)
                    ELSE sliceHeader(0, 0, 0)
             g == IF (old.len + n) % WordMod > old.cap
                  THEN sliceGrow(m, old.data, old.len, old.cap, (old.cap + n) % WordMod,
                                 Size(elem(v.typecode)))
                  ELSE [buf |-> old.data, len |-> old.len, cap |-> old.cap, mem |-> m]
             nh == NewSliceHeader(g.mem, sliceHeader(g.buf, (g.len + n) % WordMod, g.cap))
         IN  Ok([v EXCEPT !.value = nh.addr], nh.mem)

\* the loop of Append: v.Index(oldLen + i).Set(xs[i]) for each i in turn
RECURSIVE AppendLoop(_, _, _, _)
AppendLoop(m, v, at, xs) ==
    IF xs = <<>> THEN Ok(v, m)
    ELSE LET e == Index(m, v, at)
         IN  IF e.err # "ok" THEN Fail(e.err, m)
             ELSE LET w == Set(e.mem, e.v, Head(xs))
                  IN  IF w.err # "ok" THEN Fail(w.err, w.mem)
                      ELSE AppendLoop(w.mem, v, at + 1, Tail(xs))

Append_(m, v, xs) ==
    IF VKind(v) # "Slice" THEN Fail("KindMismatch", m)
    ELSE IF ~ValidRange(m, v.value, SliceHeaderSize) THEN Fail("Fault", m)
    ELSE LET oldLen == LoadSliceHeader(m, v.value).len
             ext == extendSlice(m, v, Len(xs))
         IN  AppendLoop(ext.mem, ext.v, oldLen, xs)

\* runtime.sliceAppend
sliceAppend(m, srcBuf, elemsBuf, srcLen, srcCap, elemsLen, elemSize) ==
    LET newLen == srcLen + elemsLen
    IN  IF elemsLen > 0
        THEN LET g == sliceGrow(m, srcBuf, srcLen, srcCap, newLen, elemSize)
             IN  [buf |-> g.buf, len |-> newLen, cap |-> g.cap,
                  mem |-> Store(g.mem, g.buf + srcLen * elemSize,
                                Load(m, elemsBuf, elemsLen * elemSize))]
        ELSE [buf |-> srcBuf, len |-> newLen, cap |-> srcCap, mem |-> m]

AppendSlice(m, s, t) ==
    IF VKind(s) # "Slice" \/ VKind(t) # "Slice" \/ s.typecode # t.typecode
    THEN Fail("TypeMismatch", m)
    ELSE IF ~isExported(s) \/ ~isExported(t) THEN Fail("NotAccessible", m)
    ELSE IF ~ValidRange(m, s.value, SliceHeaderSize)
            \/ ~ValidRange(m, t.value, SliceHeaderSize) THEN Fail("Fault", m)
    ELSE LET sSlice == LoadSliceHeader(m, s.value)
             tSlice == LoadSliceHeader(m, t.value)
             a == sliceAppend(m, sSlice.data, tSlice.data, sSlice.len, sSlice.cap,
                              tSlice.len, Size(elem(s.typecode)))
             nh == NewSliceHeader(a.mem, sliceHeader(a.buf, a.len, a.cap))
         IN  Ok(Val(s.typecode, nh.addr, valueFlagExported), nh.mem)

\* buflen: the buffer and the length Copy reads of v
buflen(m, v) ==
    CASE VKind(v) = "Slice" ->
           LET hdr == LoadSliceHeader(m, v.value)
           IN  [err |-> "ok", buf |-> hdr.data, len |-> hdr.len]
      [] VKind(v) = "Array" ->
           IF isIndirect(v)
           THEN [err |-> "ok", buf |-> v.value, len |-> TypeLen(v.typecode)]
           ELSE [err |-> "NotAddressable", buf |-> 0, len |-> 0]
      [] VKind(v) = "String" ->
           LET hdr == LoadStringHeader(m, v.value)
           IN  [err |-> "ok", buf |-> hdr.data, len |-> hdr.len]
      [] OTHER -> [err |-> "KindMismatch", buf |-> 0, len |-> 0]

\* runtime.sliceCopy: a memmove of min(dstLen, srcLen) elements
sliceCopy(m, dst, src, dstLen, srcLen, elemSize) ==
    LET n == Min(dstLen, srcLen)
    IN  [n |-> n, mem |-> Store(m, dst, Load(m, src, n * elemSize))]

\* Copy that hands the source's length to sliceCopy as the destination's
CopyAllOfSource(m, dst, src) ==
    LET dk == VKind(dst)
        sk == VKind(src)
        compatibleTypes ==
            \/ /\ dk \in {"Slice", "Array"}
               /\ sk \in {"Slice", "Array"}
               /\ elem(dst.typecode) = elem(src.typecode)
            \/ /\ dk \in {"Slice", "Array"}
               /\ Kind(elem(dst.typecode)) = "Uint8"
               /\ sk = "String"
    IN  IF ~compatibleTypes THEN Fail("TypeMismatch", m)
        ELSE LET d == buflen(m, dst)
             IN  IF d.err # "ok" THEN Fail(d.err, m)
                 ELSE LET s == buflen(m, src)
                      IN  IF s.err # "ok" THEN Fail(s.err, m)
                          ELSE LET c == sliceCopy(m, d.buf, s.buf, s.len, s.len,
                                                  Size(elem(dst.typecode)))
                               IN  Ok(Val(NilType, c.n, {}), c.mem)

\* Copy returns the count in v.value of its result
Copy(m, dst, src) ==
    LET dk == VKind(dst)
        sk == VKind(src)
        compatibleTypes ==
            \/ /\ dk \in {"Slice", "Array"}
               /\ sk \in {"Slice", "Array"}
               /\ elem(dst.typecode) = elem(src.typecode)
            \/ /\ dk \in {"Slice", "Array"}
               /\ Kind(elem(dst.typecode)) = "Uint8"
               /\ sk = "String"
    IN  IF ~compatibleTypes THEN Fail("TypeMismatch", m)
        ELSE LET d == buflen(m, dst)
             IN  IF d.err # "ok" THEN Fail(d.err, m)
                 ELSE LET s == buflen(m, src)
                      IN  IF s.err # "ok" THEN Fail(s.err, m)
                          ELSE LET c == sliceCopy(m, d.buf, s.buf, d.len, s.len,
                                                  Size(elem(dst.typecode)))
                               IN  Ok(Val(NilType, c.n, {}), c.mem)

(***************************************************************************)
(* The hashmap engine, at its interface: a map is a sequence of entries    *)
(* [k, kraw, v]: the key as the map's strategy compares it, the key's      *)
(* bytes as stored, the value's bytes.  A cursor is [pos, done].           *)
(***************************************************************************)
hashmapAlgorithmBinary == "binary"
hashmapAlgorithmString == "string"
hashmapAlgorithmInterface == "interface"

MRes(e, v, m, ms) == [err |-> e, v |-> v, mem |-> m, maps |-> ms]

EntryIndex(entries, k) ==
    IF \E n \in 1..Len(entries) : entries[n].k = k
    THEN CHOOSE n \in 1..Len(entries) : entries[n].k = k
    ELSE 0

RemoveAt(s, n) == [k \in 1..(Len(s) - 1) |-> IF k < n THEN s[k] ELSE s[k + 1]]

\* runtime.hashmapMake
hashmapMake(m, ms, keySize, valueSize, alg) ==
    LET p == AllocAddr(m)
    IN  [addr |-> p, mem |-> AllocMem(m, 1),
         maps |-> [q \in DOMAIN ms \cup {p} |->
                     IF q = p THEN [alg |-> alg, keySize |-> keySize,
                                    valueSize |-> valueSize, entries |-> <<>>]
                     ELSE ms[q]]]

\* runtime.hashmap{String,Binary,Interface}Get
hashmapGet(ms, p, k) ==
    IF p \notin DOMAIN ms \/ EntryIndex(ms[p].entries, k) = 0
    THEN [found |-> FALSE, v |-> <<>>]
    ELSE [found |-> TRUE, v |-> ms[p].entries[EntryIndex(ms[p].entries, k)].v]

\* runtime.hashmap{String,Binary,Interface}Set, on a map that is not nil
hashmapSet(ms, p, k, kraw, v) ==
    LET n == EntryIndex(ms[p].entries, k)
    IN  IF n = 0
        THEN [ms EXCEPT ![p].entries = @ \o <<[k |-> k, kraw |-> kraw, v |-> v]>>]
        ELSE [ms EXCEPT ![p].entries[n].v = v]

\* runtime.hashmap{String,Binary,Interface}Delete
hashmapDelete(ms, p, k) ==
    IF p \notin DOMAIN ms \/ EntryIndex(ms[p].entries, k) = 0 THEN ms
    ELSE [ms EXCEPT ![p].entries = RemoveAt(@, EntryIndex(ms[p].entries, k))]

\* runtime.hashmapNewIterator
hashmapNewIterator == [pos |-> 0, done |-> FALSE]

\* runtime.hashmapNext: the next entry, or none for ever once it reported none
hashmapNext(ms, p, cur) ==
    IF p \notin DOMAIN ms \/ cur.done \/ cur.pos >= Len(ms[p].entries)
    THEN [found |-> FALSE, cur |-> [cur EXCEPT !.done = TRUE], kraw |-> <<>>, v |-> <<>>]
    ELSE [found |-> TRUE, cur |-> [cur EXCEPT !.pos = @ + 1],
          kraw |-> ms[p].entries[cur.pos + 1].kraw, v |-> ms[p].entries[cur.pos + 1].v]

(***************************************************************************)
(* Map operations: MakeMapWithSize, MapIndex, SetMapIndex, MapKeys.        *)
(***************************************************************************)
\* MakeMapWithSize without the strategy for string keys
MakeMapNoStringStrategy(m, ms, typ, n) ==
    IF Kind(typ) # "Map" THEN MRes("KindMismatch", ZeroValue, m, ms)
    ELSE IF n < 0 THEN MRes("NegativeSize", ZeroValue, m, ms)
    ELSE LET alg == IF isBinary(key(typ)) THEN hashmapAlgorithmBinary
                    ELSE hashmapAlgorithmInterface
             mk == hashmapMake(m, ms, Size(key(typ)), Size(elem(typ)), alg)
         IN  MRes("ok", Val(typ, mk.addr, valueFlagExported), mk.mem, mk.maps)

MakeMapWithSize(m, ms, typ, n) ==
    IF Kind(typ) # "Map" THEN MRes("KindMismatch", ZeroValue, m, ms)
    ELSE IF n < 0 THEN MRes("NegativeSize", ZeroValue, m, ms)
    ELSE LET alg == IF Kind(key(typ)) = "String" THEN hashmapAlgorithmString
                    ELSE IF isBinary(key(typ)) THEN hashmapAlgorithmBinary
                    ELSE hashmapAlgorithmInterface
             mk == hashmapMake(m, ms, Size(key(typ)), Size(elem(typ)), alg)
         IN  MRes("ok", Val(typ, mk.addr, valueFlagExported), mk.mem, mk.maps)

MakeMap(m, ms, typ) == MakeMapWithSize(m, ms, typ, 8)

\* the bytes at keyptr / elemptr: the handle's own word when it is inline
ArgBytes(m, a) ==
    LET size == Size(a.typecode)
    IN  IF isIndirect(a) \/ size > PtrSize
        THEN IF ValidRange(m, a.value, size)
             THEN [err |-> "ok", bytes |-> Load(m, a.value, size)]
             ELSE [err |-> "Fault", bytes |-> <<>>]
        ELSE [err |-> "ok", bytes |-> LE(a.value, size)]

\* what an interface value is compared by: its type and its value's bytes
IfaceKey(m, i) ==
    IF i.typecode = NilType THEN <<i.typecode, <<>>>>
    ELSE IF Size(i.typecode) <= PtrSize THEN <<i.typecode, LE(i.value, Size(i.typecode))>>
    ELSE <<i.typecode, Load(m, i.value, Size(i.typecode))>>

\* the key a map call hands to the engine, and the entry point family it calls
MapKeyArg(m, k0) ==
    IF VKind(k0) = "String"
    THEN LET s == String(m, k0)
         IN  [err |-> s.err, alg |-> hashmapAlgorithmString, k |-> s.val,
              kraw |-> IF s.err = "ok" THEN Load(m, k0.value, StringHeaderSize) ELSE <<>>]
    ELSE IF isBinary(k0.typecode)
    THEN LET b == ArgBytes(m, k0)
         IN  [err |-> b.err, alg |-> hashmapAlgorithmBinary, k |-> b.bytes, kraw |-> b.bytes]
    ELSE LET i == Interface(m, k0)
         IN  [err |-> i.err, alg |-> hashmapAlgorithmInterface,
              k |-> IF i.err = "ok" THEN IfaceKey(m, i.val) ELSE <<>>,
              kraw |-> IF i.err = "ok"
                       THEN LE(TypeAddr(i.val.typecode), PtrSize) \o LE(i.val.value, PtrSize)
                       ELSE <<>>]

MapIndex(m, ms, v, k0) ==
    IF VKind(v) # "Map" THEN MRes("KindMismatch", ZeroValue, m, ms)
    ELSE IF k0.typecode # key(v.typecode) THEN MRes("TypeMismatch", ZeroValue, m, ms)
    ELSE LET elemType == elem(v.typecode)
             el == New(m, elemType)
             ka == MapKeyArg(el.mem, k0)
         IN  IF ka.err # "ok" THEN MRes(ka.err, ZeroValue, el.mem, ms)
             ELSE IF ~Readable(m, v) THEN MRes("Fault", ZeroValue, el.mem, ms)
             ELSE LET g == hashmapGet(ms, pointer(m, v), ka.k)
                  IN  IF ~g.found THEN MRes("ok", ZeroValue, el.mem, ms)
                      ELSE LET m2 == Store(el.mem, el.v.value, g.v)
                               r == Elem(m2, el.v)
                           IN  MRes(r.err, r.v, r.mem, ms)

\* SetMapIndex taking the element's bytes from the handle's own word, whether
\* or not the handle holds a pointer to them
SetMapIndexInlineElem(m, ms, v, k0, el) ==
    IF VKind(v) # "Map" THEN MRes("KindMismatch", ZeroValue, m, ms)
    ELSE IF k0.typecode # key(v.typecode) THEN MRes("TypeMismatch", ZeroValue, m, ms)
    ELSE LET del == (el = ZeroValue)
         IN  IF ~del /\ el.typecode # elem(v.typecode)
             THEN MRes("TypeMismatch", ZeroValue, m, ms)
             ELSE LET ka == MapKeyArg(m, k0)
                      p == pointer(m, v)
                  IN  IF ka.err # "ok" THEN MRes(ka.err, ZeroValue, m, ms)
                      ELSE IF ~Readable(m, v) THEN MRes("Fault", ZeroValue, m, ms)
                      ELSE IF del THEN MRes("ok", ZeroValue, m, hashmapDelete(ms, p, ka.k))
                      ELSE LET eb == [err |-> "ok", bytes |-> LE(el.value, Size(el.typecode))]
                           IN  IF eb.err # "ok" THEN MRes(eb.err, ZeroValue, m, ms)
                               ELSE IF p \notin DOMAIN ms
                               THEN MRes("NilMap", ZeroValue, m, ms)
                               ELSE MRes("ok", ZeroValue, m,
                                         hashmapSet(ms, p, ka.k, ka.kraw, eb.bytes))

SetMapIndex(m, ms, v, k0, el) ==
    IF VKind(v) # "Map" THEN MRes("KindMismatch", ZeroValue, m, ms)
    ELSE IF k0.typecode # key(v.typecode) THEN MRes("TypeMismatch", ZeroValue, m, ms)
    ELSE LET del == (el = ZeroValue)
         IN  IF ~del /\ el.typecode # elem(v.typecode)
             THEN MRes("TypeMismatch", ZeroValue, m, ms)
             ELSE LET ka == MapKeyArg(m, k0)
                      p == pointer(m, v)
                  IN  IF ka.err # "ok" THEN MRes(ka.err, ZeroValue, m, ms)
                      ELSE IF ~Readable(m, v) THEN MRes("Fault", ZeroValue, m, ms)
                      ELSE IF del THEN MRes("ok", ZeroValue, m, hashmapDelete(ms, p, ka.k))
                      ELSE LET eb == ArgBytes(m, el)
                           IN  IF eb.err # "ok" THEN MRes(eb.err, ZeroValue, m, ms)
                               ELSE IF p \notin DOMAIN ms
                               THEN MRes("NilMap", ZeroValue, m, ms)
                               ELSE MRes("ok", ZeroValue, m,
                                         hashmapSet(ms, p, ka.k, ka.kraw, eb.bytes))

\* the loop of MapKeys without a fresh key buffer for the next entry
RECURSIVE MapKeysLoopSharedKey(_, _, _, _, _, _, _)
MapKeysLoopSharedKey(m, ms, v, cur, k0, e0, keys) ==
    LET nx == hashmapNext(ms, pointer(m, v), cur)
    IN  IF ~nx.found THEN MRes("ok", keys, m, ms)
        ELSE LET m1 == Store(Store(m, k0.value, nx.kraw), e0.value, nx.v)
                 ke == Elem(m1, k0)
                 k1 == Ok(k0, ke.mem)
             IN  MapKeysLoopSharedKey(k1.mem, ms, v, nx.cur, k1.v, e0, Append(keys, ke.v))
\* the loop of MapKeys, k0 and e0 the buffers hashmapNext fills: the keys are
\* returned as the sequence v of the result
RECURSIVE MapKeysLoop(_, _, _, _, _, _, _)
MapKeysLoop(m, ms, v, cur, k0, e0, keys) ==
    LET nx == hashmapNext(ms, pointer(m, v), cur)
    IN  IF ~nx.found THEN MRes("ok", keys, m, ms)
        ELSE LET m1 == Store(Store(m, k0.value, nx.kraw), e0.value, nx.v)
                 ke == Elem(m1, k0)
                 k1 == New(ke.mem, key(v.typecode))
             IN  MapKeysLoop(k1.mem, ms, v, nx.cur, k1.v, e0, Append(keys, ke.v))

MapKeys(m, ms, v) ==
    IF VKind(v) # "Map" THEN MRes("KindMismatch", <<>>, m, ms)
    ELSE IF ~Readable(m, v) THEN MRes("Fault", <<>>, m, ms)
    ELSE IF maplen(ms, pointer(m, v)) = 0 THEN MRes("ok", <<>>, m, ms)
    ELSE LET k0 == New(m, key(v.typecode))
             e0 == New(k0.mem, elem(v.typecode))
         IN  MapKeysLoop(e0.mem, ms, v, hashmapNewIterator, k0.v, e0.v, <<>>)

(***************************************************************************)
(* MapIter: MapRange, Next, Key, Value.                                    *)
(***************************************************************************)
NoIter == [live |-> FALSE, m |-> ZeroValue, it |-> hashmapNewIterator,
           key |-> ZeroValue, val |-> ZeroValue, valid |-> FALSE]

\* MapRange returns [err, it]
MapRange(v) ==
    IF VKind(v) # "Map" THEN [err |-> "KindMismatch", it |-> NoIter]
    ELSE [err |-> "ok",
          it |-> [live |-> TRUE, m |-> v, it |-> hashmapNewIterator,
                  key |-> ZeroValue, val |-> ZeroValue, valid |-> FALSE]]

\* it.Next() returns [it, mem, found]
\* Next that never clears valid once an entry was found
IterNextKeepsValid(m, ms, it) ==
    LET k0 == New(m, key(it.m.typecode))
        e0 == New(k0.mem, elem(it.m.typecode))
        nx == hashmapNext(ms, pointer(m, it.m), it.it)
        m2 == IF nx.found
              THEN Store(Store(e0.mem, k0.v.value, nx.kraw), e0.v.value, nx.v)
              ELSE e0.mem
    IN  [it |-> [it EXCEPT !.key = k0.v, !.val = e0.v, !.it = nx.cur, !.valid = it.valid \/ nx.found],
         mem |-> m2, found |-> nx.found]

IterNext(m, ms, it) ==
    LET k0 == New(m, key(it.m.typecode))
        e0 == New(k0.mem, elem(it.m.typecode))
        nx == hashmapNext(ms, pointer(m, it.m), it.it)
        m2 == IF nx.found
              THEN Store(Store(e0.mem, k0.v.value, nx.kraw), e0.v.value, nx.v)
              ELSE e0.mem
    IN  [it |-> [it EXCEPT !.key = k0.v, !.val = e0.v, !.it = nx.cur, !.valid = nx.found],
         mem |-> m2, found |-> nx.found]

IterKey(m, it) ==
    IF ~it.valid THEN Fail("InvalidIterator", m) ELSE Elem(m, it.key)

IterValue(m, it) ==
    IF ~it.valid THEN Fail("InvalidIterator", m) ELSE Elem(m, it.val)

(***************************************************************************)
(* The host program's values: the memory the program starts with and the   *)
(* interface values it can hand to ValueOf.                                *)
(***************************************************************************)
objS == zerobuffer + zerobufferLen       \* an S{A: 7, b: 9} boxed in an interface
varS == objS + 4                         \* a variable S{A: 3, b: 4}
arr == varS + 4                          \* a variable [3]int16{10, 20, 30}
hdrSl == arr + 6                         \* the slice arr[0:1], boxed
objO == hdrSl + 6                        \* an O{in: S{1, 2}, m: map1, sl: arr[0:2]}, boxed
strData == objO + 12                     \* the bytes of "hi"
hdrStr == strData + 2                    \* the string "hi", boxed
boxI32 == hdrStr + 4                     \* the int32 70000, boxed
ifaceVar == boxI32 + 4                   \* a variable interface{} holding int16(42)
bytesArr == ifaceVar + 4                 \* a variable [2]uint8{1, 2}
hdrBytes == bytesArr + 2                 \* the slice bytesArr[0:1], boxed
map1 == hdrBytes + 6                     \* a map[uint8]int16{5: 50}
strH == map1 + 1                         \* the byte of "h"
hdrStrH == strH + 1                      \* the string "hi"[0:1], boxed
hdrStrH2 == hdrStrH + 4                  \* the string "h", boxed
ifaceVar2 == hdrStrH2 + 4                \* a variable interface{} holding uint8(42)
varStr == ifaceVar2 + 4                  \* a variable string "hi"

InitMem ==
    Zeros(zerobufferLen)
    \o LE(7, 2) \o LE(9, 2)
    \o LE(3, 2) \o LE(4, 2)
    \o LE(10, 2) \o LE(20, 2) \o LE(30, 2)
    \o SliceHeaderBytes(sliceHeader(arr, 1, 3))
    \o LE(1, 2) \o LE(2, 2) \o LE(map1, 2) \o SliceHeaderBytes(sliceHeader(arr, 2, 3))
    \o <<104, 105>>
    \o StringHeaderBytes(stringHeader(strData, 2))
    \o LE(70000, 4)
    \o LE(TypeAddr(Ty("int16")), 2) \o LE(42, 2)
    \o <<1, 2>>
    \o SliceHeaderBytes(sliceHeader(bytesArr, 1, 2))
    \o <<0>>
    \o <<104>>
    \o StringHeaderBytes(stringHeader(strData, 1))
    \o StringHeaderBytes(stringHeader(strH, 1))
    \o LE(TypeAddr(Ty("uint8")), 2) \o LE(42, 2)
    \o StringHeaderBytes(stringHeader(strData, 2))

InitMaps ==
    [p \in {map1} |-> [alg |-> hashmapAlgorithmBinary, keySize |-> 1, valueSize |-> 2,
                       entries |-> <<[k |-> <<5>>, kraw |-> <<5>>, v |-> LE(50, 2)]>>]]

\* what the host program has put in its maps: per map, the pairs <<key, element>>
InitStored == (map1 :> {<<5, 50>>})

PtrTy(n) == pointerTo(Ty(n))

HostValues ==
    { Iface(Ty("int16"), 5), Iface(Ty("uint8"), 5), Iface(Ty("bool"), 1),
      Iface(Ty("int32"), boxI32),
      Iface(Ty("S"), objS), Iface(PtrTy("S"), varS),
      Iface(Ty("P"), 513),
      Iface(Ty("O"), objO),
      Iface(Ty("[]int16"), hdrSl), Iface(PtrTy("[3]int16"), arr),
      Iface(Ty("[]uint8"), hdrBytes), Iface(Ty("[2]uint8"), 1027),
      Iface(Ty("string"), hdrStr), Iface(PtrTy("string"), varStr),
      Iface(PtrTy("iface"), ifaceVar),
      Iface(Ty("map[uint8]int16"), map1) }

(***************************************************************************)
(* The program: calls on the handle h it holds, with the handle x it kept  *)
(* as the second argument.  A call that panics is recovered: the handles   *)
(* stay, the memory stays as the call left it.                             *)
(***************************************************************************)
Idx == -1..MaxIdx
IntInputs == {-2, 77}
NewTypes == {Ty("int16"), Ty("S"), Ty("[]int16"), Ty("string")}

Init ==
    /\ mem = InitMem
    /\ maps = InitMaps
    /\ h = ZeroValue
    /\ x = ZeroValue
    /\ iter = NoIter
    /\ last = [op |-> "none", err |-> "ok"]
    /\ steps = 0
    /\ stored = InitStored
    /\ yielded = <<>>
    /\ lastNext = "none"
    /\ wasmNested = FALSE
    /\ stack = <<>>
    /\ runqueue = <<>>
    /\ entered = [resume |-> 0, go_scheduler |-> 0, handleEvent |-> 0]

Called(op, e) == /\ steps < MaxSteps
                 /\ last' = [op |-> op, err |-> e]
                 /\ steps' = steps + 1
                 /\ UNCHANGED schedVars

\* a call that returns a handle: the program holds it afterwards
Returns(op, r) ==
    /\ Len(r.mem) <= MemLimit
    /\ mem' = r.mem
    /\ h' = IF r.err = "ok" THEN r.v ELSE h
    /\ Called(op, r.err)
    /\ UNCHANGED <<maps, x, iter, stored, yielded, lastNext>>

\* a call that writes through h
Writes(op, r) ==
    /\ Len(r.mem) <= MemLimit
    /\ mem' = r.mem
    /\ Called(op, r.err)
    /\ UNCHANGED <<maps, h, x, iter, stored, yielded, lastNext>>

DoValueOf == \E i \in HostValues : Returns("ValueOf", Ok(ValueOf(i), mem))

DoField == \E i \in Idx : Returns("Field", Field(mem, h, i))

DoIndex == \E i \in Idx : Returns("Index", Index(mem, h, i))

DoElem == Returns("Elem", Elem(mem, h))

DoAddr == Returns("Addr", Addr(mem, h))

DoSlice == \E i, j \in Idx : Returns("Slice", Slice(mem, h, i, j))

DoSlice3 == \E i, j, k \in Idx : Returns("Slice3", Slice3(mem, h, i, j, k))

DoNew == \E t \in NewTypes : Returns("New", New(mem, t))

DoZero == \E t \in NewTypes : Returns("Zero", Zero(mem, t))

\* the keys the program looks up: host values of several types
LookupKeys == {Iface(Ty("uint8"), 5), Iface(Ty("uint8"), 6), Iface(Ty("int16"), 5)}

DoMapIndex ==
    \E i \in LookupKeys :
        LET r == MapIndex(mem, maps, h, ValueOf(i))
        IN  Returns("MapIndex", Res(r.err, r.v, r.mem))

\* MapKeys: the program goes on with one of the keys
DoMapKeys ==
    LET r == MapKeys(mem, maps, h)
    IN  \/ /\ r.err = "ok" /\ r.v # <<>>
           /\ \E n \in 1..Len(r.v) : Returns("MapKeys", Ok(r.v[n], r.mem))
        \/ /\ r.err # "ok" \/ r.v = <<>>
           /\ Returns("MapKeys", Res(r.err, h, r.mem))

DoMapRange ==
    LET r == MapRange(h)
    IN  /\ iter' = IF r.err = "ok" THEN r.it ELSE iter
        /\ yielded' = IF r.err = "ok" THEN <<>> ELSE yielded
        /\ lastNext' = IF r.err = "ok" THEN "none" ELSE lastNext
        /\ Called("MapRange", r.err)
        /\ UNCHANGED <<mem, maps, h, x, stored>>

\* what the handle v holds, as the readers read it
Reading(m, v) ==
    CASE VKind(v) \in IntKinds  -> Int_(m, v).val
      [] VKind(v) \in UintKinds -> Uint(m, v).val
      [] VKind(v) = "Bool"      -> Bool(m, v).val
      [] VKind(v) = "String"    -> String(m, v).val
      [] VKind(v) = "Interface" -> LET e == Elem(m, v).v IN <<e.typecode, e.value>>
      [] OTHER -> <<"unread", v.typecode>>

DoNext ==
    /\ iter.live
    /\ LET r == IterNext(mem, maps, iter)
       IN  /\ Len(r.mem) <= MemLimit
           /\ mem' = r.mem
           /\ iter' = r.it
           /\ lastNext' = IF r.found THEN "true" ELSE "false"
           /\ yielded' = IF r.found
                         THEN Append(yielded, <<Reading(r.mem, IterKey(r.mem, r.it).v),
                                                Reading(r.mem, IterValue(r.mem, r.it).v)>>)
                         ELSE yielded
           /\ Called("Next", "ok")
           /\ UNCHANGED <<maps, h, x, stored>>

DoKey == iter.live /\ Returns("Key", IterKey(mem, iter))

DoValue == iter.live /\ Returns("Value", IterValue(mem, iter))

Next ==
    \/ DoValueOf
    \/ DoField \/ DoIndex \/ DoElem \/ DoAddr \/ DoSlice \/ DoSlice3
    \/ DoNew \/ DoZero
    \/ DoMapIndex \/ DoMapKeys
    \/ DoMapRange \/ DoNext \/ DoKey \/ DoValue

Spec == Init /\ [][Next]_vars

(***************************************************************************)
(* Claims about navigation and the flags.                                  *)
(***************************************************************************)
\* the handles one navigation call on v can return
NavResults(m, ms, v) ==
    {Field(m, v, i).v : i \in {i0 \in Idx : Field(m, v, i0).err = "ok"}}
    \cup {Index(m, v, i).v : i \in {i0 \in Idx : Index(m, v, i0).err = "ok"}}
    \cup (IF Elem(m, v).err = "ok" THEN {Elem(m, v).v} ELSE {})
    \cup (IF Addr(m, v).err = "ok" THEN {Addr(m, v).v} ELSE {})
    \cup {Slice(m, v, a[1], a[2]).v :
            a \in {a0 \in Idx \X Idx : Slice(m, v, a0[1], a0[2]).err = "ok"}}
    \cup {Slice3(m, v, a[1], a[2], a[3]).v :
            a \in {a0 \in Idx \X Idx \X Idx : Slice3(m, v, a0[1], a0[2], a0[3]).err = "ok"}}
    \cup {MapIndex(m, ms, v, ValueOf(i)).v :
            i \in {i0 \in LookupKeys : MapIndex(m, ms, v, ValueOf(i0)).err = "ok"}}
    \cup (IF MapKeys(m, ms, v).err = "ok"
          THEN {MapKeys(m, ms, v).v[n] : n \in 1..Len(MapKeys(m, ms, v).v)}
          ELSE {})

\* what an iterator over a map returns from Key and Value
IterResults(m, it) ==
    IF it.live /\ it.valid THEN {IterKey(m, it).v, IterValue(m, it).v} ELSE {}

\* C1: accessibility only narrows: from a handle whose Exported flag is clear,
\* no navigation call (Field, Index, Elem, Slice, Slice3, Addr, MapIndex,
\* MapKeys, the Key and Value of a MapRange over it) returns a handle whose
\* Exported flag is set.
C1_AccessibilityOnlyNarrows ==
    /\ (IsValid(h) /\ ~isExported(h)) =>
          \A r \in NavResults(mem, maps, h) : ~isExported(r)
    /\ (iter.live /\ ~isExported(iter.m)) =>
          \A r \in IterResults(mem, iter) : ~isExported(r)

\* the non-exported fields of the struct handle v
HiddenFields(v) ==
    IF VKind(v) # "Struct" THEN {}
    ELSE {i \in 0..(NumFieldOf(v.typecode) - 1) : rawField(v.typecode, i).pkgPath # ""}

\* the reader made for v's kind, called on v
ReadAttempt(m, v) ==
    CASE VKind(v) \in IntKinds  -> Int_(m, v)
      [] VKind(v) \in UintKinds -> Uint(m, v)
      [] VKind(v) = "Bool"      -> Bool(m, v)
      [] VKind(v) = "String"    -> String(m, v)
      [] OTHER                  -> Interface(m, v)

\* the bytes of field i of the struct v, read where the struct lies
FieldBytes(m, v, i) ==
    LET f == rawField(v.typecode, i)
    IN  SubSeq(ArgBytes(m, v).bytes, f.offset + 1, f.offset + Size(f.typ))

\* C2 as claimed: a handle Field returns for a non-exported field has
\* CanInterface() false, and Interface and the reader of its kind fail with
\* NotAccessible.
C2_HiddenFieldUnreadable ==
    \A i \in HiddenFields(h) :
        LET r == Field(mem, h, i)
        IN  r.err = "ok" =>
              /\ ~CanInterface(r.v)
              /\ Interface(mem, r.v).err = "NotAccessible"
              /\ ReadAttempt(mem, r.v).err = "NotAccessible"

\* C2 as amended: a handle Field returns for a non-exported field has
\* CanInterface() false and Interface fails with NotAccessible; the scalar
\* readers do not look at the flag and return the field's value.
C2_HiddenFieldInterfaceFails ==
    \A i \in HiddenFields(h) :
        LET r == Field(mem, h, i)
        IN  r.err = "ok" =>
              /\ ~CanInterface(r.v)
              /\ Interface(mem, r.v).err = "NotAccessible"
              /\ VKind(r.v) \in IntKinds =>
                    /\ Int_(mem, r.v).err = "ok"
                    /\ Int_(mem, r.v).val = SignedLE(FieldBytes(mem, h, i))
              /\ VKind(r.v) \in UintKinds =>
                    /\ Uint(mem, r.v).err = "ok"
                    /\ Uint(mem, r.v).val = FromLE(FieldBytes(mem, h, i))

\* a state where Field has returned the non-exported int16 field of a struct
\* the program got from ValueOf, and Int reads it
C2_Witness ==
    /\ last = [op |-> "Field", err |-> "ok"]
    /\ steps = 2
    /\ ~isExported(h)
    /\ VKind(h) = "Int16"
    /\ Int_(mem, h).err = "ok"
    /\ Interface(mem, h).err = "NotAccessible"

\* the writers that ask for an addressable handle, called on v with the
\* inputs of the model: how each ends
WriterErrs(m, v) ==
    {SetInt(m, v, n).err : n \in IntInputs}
    \cup {SetUint(m, v, 9).err, SetBool(m, v, TRUE).err,
          SetString(m, v, stringHeader(strData, 1)).err,
          SetBytes(m, v, sliceHeader(bytesArr, 2, 2)).err}
    \cup {Set(m, v, ValueOf(i)).err : i \in HostValues}

\* C3: addressability implies write permission: a handle whose Indirect flag
\* is set has its Exported flag set (CanSet), so no writer succeeds on a
\* handle whose Exported flag is clear.
C3_IndirectImpliesAccessible ==
    /\ isIndirect(h) => CanSet(h)
    /\ (IsValid(h) /\ ~isExported(h)) => "ok" \notin WriterErrs(mem, h)

\* the slice header the Slice handle v holds
HeaderOf(m, v) == LoadSliceHeader(m, v.value)

SliceBad(i, j, c) == i < 0 \/ j < 0 \/ j < i \/ j > c

Slice3Bad(i, j, k, c) == i < 0 \/ j < 0 \/ k < 0 \/ j < i \/ k < j \/ k > c

\* C10: Slice(i, j) and Slice3(i, j, k) on a slice of capacity C fail with a
\* slice-bounds error exactly when j < i, k < j or the upper bound exceeds C
\* (or an index is negative), and else return the header (data + i * size,
\* j - i, C - i or k - i) over the same elements; Slice(i, j) on a string
\* fails exactly when j < i or j > Len().
C10_SliceBounds ==
    /\ VKind(h) = "Slice" =>
         LET hd == HeaderOf(mem, h)
             es == Size(elem(h.typecode))
         IN  /\ \A i, j \in Idx :
                   LET r == Slice(mem, h, i, j)
                   IN  IF SliceBad(i, j, hd.cap) THEN r.err = "SliceBounds"
                       ELSE /\ r.err = "ok"
                            /\ HeaderOf(r.mem, r.v)
                                 = sliceHeader(hd.data + i * es, j - i, hd.cap - i)
             /\ \A i, j, k \in Idx :
                   LET r == Slice3(mem, h, i, j, k)
                   IN  IF Slice3Bad(i, j, k, hd.cap) THEN r.err = "SliceBounds"
                       ELSE /\ r.err = "ok"
                            /\ HeaderOf(r.mem, r.v)
                                 = sliceHeader(hd.data + i * es, j - i, k - i)
    /\ VKind(h) = "String" =>
         LET hd == LoadStringHeader(mem, h.value)
         IN  \A i, j \in Idx :
                LET r == Slice(mem, h, i, j)
                IN  IF SliceBad(i, j, hd.len) THEN r.err = "SliceBounds"
                    ELSE /\ r.err = "ok"
                         /\ LoadStringHeader(r.mem, r.v.value)
                              = stringHeader(hd.data + i, j - i)

(***************************************************************************)
(* The writing program: the navigation calls, and the writers, Append,     *)
(* AppendSlice, Copy and SetMapIndex called on h with arguments the        *)
(* program made from its host values.                                      *)
(***************************************************************************)
\* the handle of Interface kind: the element of a pointer to an interface{}
KeptIface == Elem(InitMem, ValueOf(Iface(PtrTy("iface"), ifaceVar))).v

\* the scalar arguments of Set, Append and SetMapIndex
ArgScalars == {ValueOf(Iface(Ty("int16"), 7)), ValueOf(Iface(Ty("uint8"), 9)), KeptIface}

\* the arguments of Set, AppendSlice and Copy
ArgHandles ==
    ArgScalars \cup {ValueOf(Iface(Ty("[]int16"), hdrSl)), ValueOf(Iface(Ty("[]uint8"), hdrBytes)),
                     ValueOf(Iface(Ty("string"), hdrStr)), ZeroValue}

\* the argument lists of Append
ArgLists == {<<a>> : a \in ArgScalars} \cup {<<a, b>> : a, b \in ArgScalars}

DoSet == \E a \in ArgHandles : Writes("Set", Set(mem, h, a))

DoSetBool == \E b \in BOOLEAN : Writes("SetBool", SetBool(mem, h, b))

DoSetInt == \E n \in IntInputs : Writes("SetInt", SetInt(mem, h, n))

DoSetUint == Writes("SetUint", SetUint(mem, h, 9))

DoSetString == Writes("SetString", SetString(mem, h, stringHeader(strData, 1)))

DoSetBytes == Writes("SetBytes", SetBytes(mem, h, sliceHeader(bytesArr, 2, 2)))

DoSetLen == \E n \in Idx : Writes("SetLen", SetLen(mem, h, n))

DoAppend == \E xs \in ArgLists : Returns("Append", Append_(mem, h, xs))

DoAppendSlice == \E a \in ArgHandles : Returns("AppendSlice", AppendSlice(mem, h, a))

DoCopy == \E a \in ArgHandles : Writes("Copy", Copy(mem, h, a))

DoSetMapIndex ==
    \E k \in ArgScalars, a \in ArgHandles :
        LET r == SetMapIndex(mem, maps, h, k, a)
        IN  /\ mem' = r.mem
            /\ maps' = r.maps
            /\ Called("SetMapIndex", r.err)
            /\ UNCHANGED <<h, x, iter, stored, yielded, lastNext>>

NextWrite ==
    \/ DoValueOf
    \/ DoField \/ DoIndex \/ DoElem \/ DoSlice
    \/ DoSet \/ DoSetBool \/ DoSetInt \/ DoSetUint \/ DoSetString \/ DoSetBytes \/ DoSetLen
    \/ DoAppend \/ DoAppendSlice \/ DoCopy \/ DoSetMapIndex

SpecWrite == Init /\ [][NextWrite]_vars

(***************************************************************************)
(* Claims about the writers and Append.                                    *)
(***************************************************************************)
\* the scalar writers and SetBytes called on v: how each ends, and the memory
\* it leaves
ScalarWriterResults(m, v) ==
    {SetInt(m, v, n) : n \in IntInputs}
    \cup {SetBool(m, v, b) : b \in BOOLEAN}
    \cup {SetUint(m, v, 9), SetString(m, v, stringHeader(strData, 1)),
          SetBytes(m, v, sliceHeader(bytesArr, 2, 2))}

\* every mutator of the Set family called on v
MutatorResults(m, v) ==
    ScalarWriterResults(m, v)
    \cup {Set(m, v, a) : a \in ArgHandles}
    \cup {SetLen(m, v, n) : n \in Idx}

\* C4: only an Indirect handle may be written through: every mutator (Set,
\* SetBool, SetInt, SetUint, SetString, SetBytes, SetLen) called on a handle
\* whose Indirect flag is clear fails with NotAddressable and leaves the
\* memory, a slice header's length included, unchanged; a scalar writer on an
\* Indirect handle of another kind fails with KindMismatch without writing.
C4_OnlyIndirectIsWritten ==
    /\ (IsValid(h) /\ ~isIndirect(h)) =>
          \A r \in MutatorResults(mem, h) : r.err = "NotAddressable" /\ r.mem = mem
    /\ isIndirect(h) =>
          /\ VKind(h) \notin IntKinds =>
                \A n \in IntInputs : SetInt(mem, h, n) = Fail("KindMismatch", mem)
          /\ VKind(h) \notin UintKinds => SetUint(mem, h, 9) = Fail("KindMismatch", mem)
          /\ VKind(h) # "Bool" => SetBool(mem, h, TRUE) = Fail("KindMismatch", mem)
          /\ VKind(h) # "String" =>
                SetString(mem, h, stringHeader(strData, 1)) = Fail("KindMismatch", mem)

\* every mutating call the program can make on v: how it ends, the memory
\* and the maps it leaves
MutatingResults(m, ms, v) ==
    {[err |-> r.err, mem |-> r.mem, maps |-> ms] : r \in MutatorResults(m, v)}
    \cup {[err |-> r.err, mem |-> r.mem, maps |-> ms] :
            r \in {Append_(m, v, xs) : xs \in ArgLists}}
    \cup {[err |-> r.err, mem |-> r.mem, maps |-> ms] :
            r \in {AppendSlice(m, v, a) : a \in ArgHandles}}
    \cup {[err |-> r.err, mem |-> r.mem, maps |-> ms] :
            r \in {Copy(m, v, a) : a \in ArgHandles}}
    \cup {[err |-> r.err, mem |-> r.mem, maps |-> r.maps] :
            r \in {SetMapIndex(m, ms, v, a[1], a[2]) : a \in ArgScalars \X ArgHandles}}

\* C5: failures have no side effects: when a mutating call (the Set family,
\* SetLen, SetMapIndex, Copy, Append, AppendSlice) fails, the memory that
\* existed before the call and the maps are as before; a failing Append has
\* written none of its arguments.
C5_FailuresHaveNoSideEffects ==
    \A r \in MutatingResults(mem, maps, h) :
        r.err # "ok" => SubSeq(r.mem, 1, Len(mem)) = mem /\ r.maps = maps

\* the kind and the value a handle holds; for a handle of Interface kind,
\* those of the value in the interface
DynRead(m, v) ==
    IF VKind(v) = "Interface"
    THEN <<VKind(Elem(m, v).v), Reading(m, Elem(m, v).v)>>
    ELSE <<VKind(v), Reading(m, v)>>

\* the addresses of the elements [from, to) of the slice with header hd
ElemAddrs(hd, es, from, to) == (hd.data + from * es)..(hd.data + to * es - 1)

\* C6: Append(s, x1..xc) on a slice of length L returns a slice of length
\* L + c and capacity >= L + c, in place when L + c <= Cap and in a fresh
\* buffer otherwise, whose elements [0, L) equal s's and whose element L + i
\* equals x(i+1); the memory that existed before, s's header and the elements
\* [0, L) of its backing array included, is unchanged but for the slots
\* [L, L + c) of an Append in place.
C6_AppendResult ==
    \A xs \in ArgLists :
        LET r == Append_(mem, h, xs)
            c == Len(xs)
        IN  r.err = "ok" =>
              LET old == HeaderOf(mem, h)
                  new == HeaderOf(r.mem, r.v)
                  es == Size(elem(h.typecode))
              IN  /\ Len_(r.mem, maps, r.v) = [err |-> "ok", n |-> old.len + c]
                  /\ Cap_(r.mem, r.v).err = "ok"
                  /\ Cap_(r.mem, r.v).n >= old.len + c
                  /\ IF old.len + c <= old.cap THEN new.data = old.data
                                               ELSE new.data > Len(mem)
                  /\ \A i \in 0..(old.len - 1) :
                        DynRead(r.mem, Index(r.mem, r.v, i).v)
                          = DynRead(mem, Index(mem, h, i).v)
                  /\ \A i \in 0..(c - 1) :
                        DynRead(r.mem, Index(r.mem, r.v, old.len + i).v)
                          = DynRead(mem, xs[i + 1])
                  /\ \A a \in 1..Len(mem) :
                        a \notin ElemAddrs(old, es, old.len, old.len + c)
                          => r.mem[a] = mem[a]

(***************************************************************************)
(* The program that works on maps: h is the map it holds, x the handle the *)
(* last lookup returned.  stored is what the program has put in each map,  *)
(* yielded what the iterator has handed out since MapRange, lastNext what  *)
(* the last Next returned.  The program ranges over a map it does not      *)
(* change: a SetMapIndex or a new map ends the iteration.                  *)
(***************************************************************************)
MaxMapSteps == 4

MapTypes == {Ty("map[uint8]int16"), Ty("map[string]int16"), Ty("map[iface]int16")}

\* the key handles: inline and addressable handles of the same uint8, strings
\* of the same bytes at two addresses, interfaces of the same word and two types
KeyArgs ==
    { ValueOf(Iface(Ty("uint8"), 1)), Index(InitMem, ValueOf(Iface(Ty("[]uint8"), hdrBytes)), 0).v,
      ValueOf(Iface(Ty("uint8"), 5)),
      ValueOf(Iface(Ty("string"), hdrStr)), ValueOf(Iface(Ty("string"), hdrStrH)),
      ValueOf(Iface(Ty("string"), hdrStrH2)),
      KeptIface, Elem(InitMem, ValueOf(Iface(PtrTy("iface"), ifaceVar2))).v }

\* the element handles: an inline int16, an addressable one, one of another
\* type, and the zero handle that deletes
ElemArgs ==
    { ValueOf(Iface(Ty("int16"), 7)), Index(InitMem, ValueOf(Iface(Ty("[]int16"), hdrSl)), 0).v,
      ValueOf(Iface(Ty("uint8"), 9)), ZeroValue }

CalledMap(op, e) == /\ steps < MaxMapSteps
                    /\ last' = [op |-> op, err |-> e]
                    /\ steps' = steps + 1
                    /\ UNCHANGED schedVars

MapValueOf ==
    /\ h' = ValueOf(Iface(Ty("map[uint8]int16"), map1))
    /\ iter' = NoIter /\ yielded' = <<>> /\ lastNext' = "none"
    /\ CalledMap("ValueOf", "ok")
    /\ UNCHANGED <<mem, maps, x, stored>>

MapMakeMap ==
    \E t \in MapTypes :
        LET r == MakeMap(mem, maps, t)
        IN  /\ Len(r.mem) <= MemLimit
            /\ mem' = r.mem
            /\ maps' = r.maps
            /\ h' = r.v
            /\ stored' = (r.v.value :> {}) @@ stored
            /\ iter' = NoIter /\ yielded' = <<>> /\ lastNext' = "none"
            /\ CalledMap("MakeMap", r.err)
            /\ UNCHANGED x

\* the pairs of a map once key k is deleted (del) or holds element e
Put(pairs, k, del, e) ==
    {q \in pairs : q[1] # k} \cup (IF del THEN {} ELSE {<<k, e>>})

MapSetMapIndex ==
    \E k \in KeyArgs, e \in ElemArgs :
        LET r == SetMapIndex(mem, maps, h, k, e)
            p == pointer(mem, h)
        IN  /\ mem' = r.mem
            /\ maps' = r.maps
            /\ stored' = IF r.err = "ok"
                         THEN [stored EXCEPT ![p] =
                                 Put(@, Reading(mem, k), e = ZeroValue, Reading(mem, e))]
                         ELSE stored
            /\ iter' = IF r.err = "ok" THEN NoIter ELSE iter
            /\ yielded' = IF r.err = "ok" THEN <<>> ELSE yielded
            /\ lastNext' = IF r.err = "ok" THEN "none" ELSE lastNext
            /\ CalledMap("SetMapIndex", r.err)
            /\ UNCHANGED <<h, x>>

\* a read that returns a handle: the program keeps it in x
MapReturns(op, r) ==
    /\ Len(r.mem) <= MemLimit
    /\ mem' = r.mem
    /\ x' = IF r.err = "ok" THEN r.v ELSE x
    /\ CalledMap(op, r.err)
    /\ UNCHANGED <<maps, h, iter, stored, yielded, lastNext>>

MapMapIndex == \E k \in KeyArgs : MapReturns("MapIndex", MapIndex(mem, maps, h, k))

MapMapKeys ==
    LET r == MapKeys(mem, maps, h)
    IN  \/ /\ r.err = "ok" /\ r.v # <<>>
           /\ \E n \in 1..Len(r.v) : MapReturns("MapKeys", Ok(r.v[n], r.mem))
        \/ /\ r.err # "ok" \/ r.v = <<>>
           /\ MapReturns("MapKeys", Res(r.err, ZeroValue, r.mem))

MapMapRange ==
    LET r == MapRange(h)
    IN  /\ iter' = IF r.err = "ok" THEN r.it ELSE iter
        /\ yielded' = IF r.err = "ok" THEN <<>> ELSE yielded
        /\ lastNext' = IF r.err = "ok" THEN "none" ELSE lastNext
        /\ CalledMap("MapRange", r.err)
        /\ UNCHANGED <<mem, maps, h, x, stored>>

MapNext ==
    /\ iter.live
    /\ LET r == IterNext(mem, maps, iter)
       IN  /\ Len(r.mem) <= MemLimit
           /\ mem' = r.mem
           /\ iter' = r.it
           /\ lastNext' = IF r.found THEN "true" ELSE "false"
           /\ yielded' = IF r.found
                         THEN Append(yielded, <<Reading(r.mem, IterKey(r.mem, r.it).v),
                                                Reading(r.mem, IterValue(r.mem, r.it).v)>>)
                         ELSE yielded
           /\ CalledMap("Next", "ok")
           /\ UNCHANGED <<maps, h, x, stored>>

MapKey == iter.live /\ MapReturns("Key", IterKey(mem, iter))

MapValue == iter.live /\ MapReturns("Value", IterValue(mem, iter))

NextMap ==
    \/ MapValueOf \/ MapMakeMap
    \/ MapSetMapIndex \/ MapMapIndex \/ MapMapKeys
    \/ MapMapRange \/ MapNext \/ MapKey \/ MapValue

SpecMap == Init /\ [][NextMap]_vars

(***************************************************************************)
(* Claims about maps and their iterators.                                  *)
(***************************************************************************)
\* the pairs <<key, element>> the program has put in the map h
StoredIn(m, v) == stored[pointer(m, v)]

\* the key handles of the map type t
KeysFor(t) == {k \in KeyArgs : k.typecode = key(t)}

\* C7: for a map and any sequence of SetMapIndex calls with keys of its key
\* type, MapIndex(k) returns a handle that reads as the element most recently
\* stored for k, or the zero handle, without failing, when k was never stored
\* or was last deleted; Len() is the number of keys present.
C7_MapIndexReturnsStored ==
    VKind(h) = "Map" =>
        /\ Len_(mem, maps, h) = [err |-> "ok", n |-> Cardinality(StoredIn(mem, h))]
        /\ \A k \in KeysFor(h.typecode) :
              LET r == MapIndex(mem, maps, h, k)
                  hit == {q \in StoredIn(mem, h) : q[1] = Reading(mem, k)}
              IN  /\ r.err = "ok"
                  /\ Cardinality(hit) <= 1
                  /\ IF hit = {} THEN r.v = ZeroValue
                     ELSE /\ r.v.typecode = elem(h.typecode)
                          /\ \A q \in hit : Reading(r.mem, r.v) = q[2]

\* a state where the program has made a map, stored 7 under a key and looked
\* the key up
C7_Witness ==
    /\ last = [op |-> "MapIndex", err |-> "ok"]
    /\ VKind(h) = "Map"
    /\ pointer(mem, h) # map1
    /\ Cardinality(StoredIn(mem, h)) = 1
    /\ VKind(x) = "Int16"
    /\ Reading(mem, x) = 7

\* a whole iteration from a fresh MapRange of v: the pairs <<key, element>>
\* for which Next returned true, at most fuel of them
RECURSIVE Drain(_, _, _, _)
Drain(m, ms, it, fuel) ==
    LET r == IterNext(m, ms, it)
    IN  IF ~r.found \/ fuel = 0 THEN <<>>
        ELSE <<<<Reading(r.mem, IterKey(r.mem, r.it).v),
                 Reading(r.mem, IterValue(r.mem, r.it).v)>>>>
             \o Drain(r.mem, ms, r.it, fuel - 1)

SeqRange(s) == {s[i] : i \in 1..Len(s)}

\* C8: for a map holding n entries MapKeys returns exactly n handles, whose
\* keys are pairwise distinct and are the keys in the map (no handle for
\* n = 0), and a whole MapRange iteration yields the same n keys, each with
\* the element stored for it, Next returning true exactly n times.
C8_KeysAndRangeAgree ==
    /\ VKind(h) = "Map" =>
         LET pairs == StoredIn(mem, h)
             n == Cardinality(pairs)
             ks == MapKeys(mem, maps, h)
             d == Drain(mem, maps, MapRange(h).it, n + 1)
         IN  /\ ks.err = "ok"
             /\ Len(ks.v) = n
             /\ \A i, j \in 1..Len(ks.v) :
                   i # j => Reading(ks.mem, ks.v[i]) # Reading(ks.mem, ks.v[j])
             /\ {Reading(ks.mem, ks.v[i]) : i \in 1..Len(ks.v)} = {q[1] : q \in pairs}
             /\ Len(d) = n
             /\ SeqRange(d) = pairs
    /\ (iter.live /\ lastNext = "false") =>
         /\ Len(yielded) = Cardinality(StoredIn(mem, iter.m))
         /\ SeqRange(yielded) = StoredIn(mem, iter.m)

\* a state where the program has called MapKeys on a map of two entries and
\* holds one of the two keys
C8_Witness ==
    /\ last = [op |-> "MapKeys", err |-> "ok"]
    /\ Cardinality(StoredIn(mem, h)) = 2
    /\ IsValid(x)
    /\ Len(Drain(mem, maps, MapRange(h).it, 3)) = 2

\* C9: the iterator protocol: Key() and Value() succeed exactly when the last
\* Next returned true, they fail before the first Next and after a Next that
\* returned false, and once Next has returned false it returns false again.
C9_IteratorProtocol ==
    iter.live =>
        /\ IterKey(mem, iter).err = IF lastNext = "true" THEN "ok" ELSE "InvalidIterator"
        /\ IterValue(mem, iter).err = IF lastNext = "true" THEN "ok" ELSE "InvalidIterator"
        /\ lastNext = "false" => ~IterNext(mem, maps, iter).found

\* a state where Next has returned false and Key has failed after it
C9_Witness ==
    /\ last = [op |-> "Key", err |-> "InvalidIterator"]
    /\ iter.live
    /\ lastNext = "false"

(***************************************************************************)
(* Claims about Index and the bytes of a string.                           *)
(***************************************************************************)
\* C11: Index(i) on a slice or a string fails with IndexOutOfRange for every
\* i outside [0, Len()), i = Len() and negative i included, Len() being the
\* length when Index is called; for a slice and i in range it returns an
\* Indirect handle of the element type at data + i * element size.
C11_IndexBounds ==
    VKind(h) \in {"Slice", "String"} =>
        LET n == Len_(mem, maps, h).n
        IN  \A i \in Idx :
              LET r == Index(mem, h, i)
              IN  IF i < 0 \/ i >= n THEN r = Fail("IndexOutOfRange", mem)
                  ELSE /\ r.err # "IndexOutOfRange"
                       /\ r.mem = mem
                       /\ VKind(h) = "Slice" =>
                            /\ r.err = "ok"
                            /\ isIndirect(r.v)
                            /\ r.v.typecode = elem(h.typecode)
                            /\ r.v.value = HeaderOf(mem, h).data
                                             + i * Size(elem(h.typecode))

\* a state where SetLen has made the slice arr[0:1] two elements long and
\* Index has then failed on it, for the index 2 and no smaller one
C11_Witness ==
    /\ last = [op |-> "Index", err |-> "IndexOutOfRange"]
    /\ VKind(h) = "Slice"
    /\ h.value = hdrSl
    /\ Len_(mem, maps, h).n = 2
    /\ Index(mem, h, 1).err = "ok"
    /\ Index(mem, h, 2).err = "IndexOutOfRange"

\* the handles one navigation call on v returns, each with the memory the
\* call left
NavStep(m, v) ==
    {[v |-> r.v, mem |-> r.mem] :
       r \in {r0 \in {Index(m, v, i) : i \in Idx}
                     \cup {Slice(m, v, a[1], a[2]) : a \in Idx \X Idx}
                     \cup {Addr(m, v), Elem(m, v)} : r0.err = "ok"}}

\* the handles at most two navigation calls away from v
NavReach(m, v) ==
    LET one == NavStep(m, v)
    IN  {[v |-> v, mem |-> m]} \cup one
        \cup UNION {NavStep(p.mem, p.v) : p \in one}

\* C12: a byte of a string is never settable: for a string handle s,
\* addressable or not, and i in range, s.Index(i) has the Indirect flag clear
\* and the Exported flag of s, CanAddr() and CanSet() are false and every
\* writer fails on it; and no mutating call on a handle that navigation
\* reaches from s changes the bytes of the string.  (s holds a string: its
\* header describes bytes that lie in memory.)
C12_StringBytesReadOnly ==
    LET sh == LoadStringHeader(mem, h.value)
    IN  (VKind(h) = "String" /\ ValidRange(mem, sh.data, sh.len)) =>
            /\ \A i \in 0..(sh.len - 1) :
                  LET r == Index(mem, h, i)
                  IN  /\ r.err = "ok"
                      /\ ~isIndirect(r.v)
                      /\ isExported(r.v) = isExported(h)
                      /\ ~CanAddr(r.v) /\ ~CanSet(r.v)
                      /\ \A w \in MutatingResults(mem, maps, r.v) :
                            w.err # "ok" /\ w.mem = mem
            /\ \A p \in NavReach(mem, h) :
                  \A w \in MutatingResults(p.mem, maps, p.v) :
                      Load(w.mem, sh.data, sh.len) = Load(mem, sh.data, sh.len)

\* a state where SetString has rewritten the header of the string variable:
\* the handle is addressable, the byte Index returns of it is not
C12_Witness ==
    /\ last = [op |-> "SetString", err |-> "ok"]
    /\ VKind(h) = "String"
    /\ CanSet(h)
    /\ h.value = varStr
    /\ Len_(mem, maps, h).n = 1
    /\ Index(mem, h, 0) = Ok(Val(uint8Type, 104, valueFlagExported), mem)

(***************************************************************************)
(* The program that makes slices: MakeSlice, then Index, SetLen and the    *)
(* scalar writers on what it made.                                         *)
(***************************************************************************)
SliceTypes == {Ty("[]int16"), Ty("[]uint8")}

\* the largest int of the host
MaxInt == (WordMod - 1) \div 2

\* the lengths and capacities the program asks for
MakeLens == {-1, 0, 2}
MakeCaps == {-1, 2, 3, (MaxInt + 1) \div 2}

DoMakeSlice ==
    \E t \in SliceTypes \cup {Ty("int16")}, l \in MakeLens, c \in MakeCaps :
        Returns("MakeSlice", MakeSlice(mem, t, l, c))

NextMake ==
    \/ DoMakeSlice
    \/ DoIndex \/ DoSetLen \/ DoSetInt \/ DoSetUint

SpecMake == Init /\ [][NextMake]_vars

\* the pairs <<len, cap>> of the claim: the small ones, and those about the
\* largest size
SizePairs ==
    (Idx \X Idx)
    \cup {<<0, MaxInt \div 2>>, <<0, (MaxInt + 1) \div 2>>, <<0, MaxInt>>,
          <<(MaxInt + 1) \div 2, (MaxInt + 1) \div 2>>,
          <<-1, -1>>, <<0, -MaxInt - 1>>, <<-MaxInt - 1, 0>>, <<MaxInt, 3>>}

\* C13: MakeSlice(T, len, cap) fails with a slice-bounds error when
\* len > cap, when len or cap is negative or when cap elements take more
\* bytes than the largest int; else it returns a slice with Len() = len and
\* Cap() = cap, and for len = cap every Index(k), k < len, is addressable
\* and zero.
C13_MakeSlice ==
    \A t \in SliceTypes, p \in SizePairs :
        LET l == p[1]
            c == p[2]
            r == MakeSlice(mem, t, l, c)
        IN  IF l < 0 \/ c < 0 \/ l > c \/ c * Size(elem(t)) > MaxInt
            THEN r = Fail("SliceBounds", mem)
            ELSE /\ r.err = "ok"
                 /\ r.v.typecode = t
                 /\ Len_(r.mem, maps, r.v) = [err |-> "ok", n |-> l]
                 /\ Cap_(r.mem, r.v) = [err |-> "ok", n |-> c]
                 /\ l = c =>
                      \A k \in 0..Min(l - 1, MaxIdx) :
                          LET e == Index(r.mem, r.v, k)
                          IN  /\ e.err = "ok"
                              /\ CanAddr(e.v)
                              /\ IsZero(e.mem, e.v) = Got(TRUE)

\* a state where the program has made a slice of two elements and capacity
\* two, whose element 1 is addressable and zero
C13_Witness ==
    /\ last = [op |-> "MakeSlice", err |-> "ok"]
    /\ VKind(h) = "Slice"
    /\ Len_(mem, maps, h).n = 2
    /\ Cap_(mem, h).n = 2
    /\ CanAddr(Index(mem, h, 1).v)
    /\ IsZero(mem, Index(mem, h, 1).v) = Got(TRUE)

(***************************************************************************)
(* Claims about Copy, Set and the round trip through an interface value,   *)
(* on the writing program.                                                 *)
(***************************************************************************)
\* the sources of Copy: the arguments of the program, the slice arr[0:2] in
\* O, the array arr through a pointer and an array held inline
CopySources ==
    ArgHandles
    \cup {Field(InitMem, ValueOf(Iface(Ty("O"), objO)), 2).v,
          Elem(InitMem, ValueOf(Iface(PtrTy("[3]int16"), arr))).v,
          ValueOf(Iface(Ty("[2]uint8"), 1027))}

\* dst and src are slices or arrays of one element type, or dst is a slice or
\* an array of bytes and src a string
CopyTypesMatch(dst, src) ==
    /\ VKind(dst) \in {"Slice", "Array"}
    /\ \/ VKind(src) \in {"Slice", "Array"} /\ elem(src.typecode) = elem(dst.typecode)
       \/ VKind(src) = "String" /\ elem(dst.typecode) = uint8Type

\* C14: Copy(dst, src) fails with a type mismatch unless dst and src are
\* slices or arrays of the same element type or dst is a byte slice or array
\* and src a string, and fails for an array that is not addressable; else it
\* returns min(Len(dst), Len(src)), the first that many elements of dst are
\* then what src's were, the other elements of dst are as before, and Len
\* and Cap of dst are as before.
C14_Copy ==
    \A a \in CopySources :
        LET r == Copy(mem, h, a)
        IN  IF ~CopyTypesMatch(h, a) THEN r = Fail("TypeMismatch", mem)
            ELSE IF \E v \in {h, a} : VKind(v) = "Array" /\ ~CanAddr(v)
            THEN r = Fail("NotAddressable", mem)
            ELSE LET dl == Len_(mem, maps, h).n
                     n == Min(dl, Len_(mem, maps, a).n)
                 IN  /\ r.err = "ok"
                     /\ r.v.value = n
                     /\ \A i \in 0..(n - 1) :
                           DynRead(r.mem, Index(r.mem, h, i).v)
                             = DynRead(mem, Index(mem, a, i).v)
                     /\ \A i \in n..(dl - 1) :
                           DynRead(r.mem, Index(r.mem, h, i).v)
                             = DynRead(mem, Index(mem, h, i).v)
                     /\ Len_(r.mem, maps, h) = Len_(mem, maps, h)
                     /\ Cap_(r.mem, h) = Cap_(mem, h)
                     /\ Len(r.mem) = Len(mem)

\* a state where Copy has copied the string "hi" into the slice
\* bytesArr[0:1]: the first byte of bytesArr is 'h', the second is as before
C14_Witness ==
    /\ last = [op |-> "Copy", err |-> "ok"]
    /\ VKind(h) = "Slice"
    /\ HeaderOf(mem, h) = sliceHeader(bytesArr, 1, 2)
    /\ Load(mem, bytesArr, 2) = <<104, 2>>

(***************************************************************************)
(* The program that works on zero values: every handle it holds comes from *)
(* Zero, by navigation, Append or AppendSlice; it calls the writers, Copy  *)
(* and SetMapIndex on them.                                                *)
(***************************************************************************)
ZeroTypes ==
    {Ty(n) : n \in {"bool", "uint8", "int16", "int32", "string", "iface", "[]int16",
                    "[]uint8", "[2]uint8", "[3]int16", "S", "P", "O", "map[uint8]int16"}}
    \cup {PtrTy("S")}

DoZeroOf == \E t \in ZeroTypes : Returns("Zero", Zero(mem, t))

NextZero ==
    \/ DoZeroOf
    \/ DoField \/ DoIndex \/ DoElem \/ DoAddr \/ DoSlice \/ DoSlice3
    \/ DoSet \/ DoSetBool \/ DoSetInt \/ DoSetUint \/ DoSetString \/ DoSetBytes \/ DoSetLen
    \/ DoAppend \/ DoAppendSlice \/ DoCopy \/ DoSetMapIndex

SpecZero == Init /\ [][NextZero]_vars

\* the shared buffer of zeros holds zeros in the memory m
ZeroBufferIsZero(m) == Load(m, zerobuffer, zerobufferLen) = Zeros(zerobufferLen)

\* the fields of a struct handle and the elements of an array handle
PartsOf(m, v) ==
    CASE VKind(v) = "Struct" -> {Field(m, v, i) : i \in 0..(NumFieldOf(v.typecode) - 1)}
      [] VKind(v) = "Array"  -> {Index(m, v, i) : i \in 0..(TypeLen(v.typecode) - 1)}
      [] OTHER -> {}

Boxed(m, t, bs) ==
    IF Len(bs) <= PtrSize THEN [i |-> Iface(t, FromLE(bs)), mem |-> m]
    ELSE [i |-> Iface(t, AllocAddr(m)), mem |-> m \o bs]

\* the scalars of the round trip, by type
ScalarValues(n) ==
    CASE n = "bool"  -> {0, 1}
      [] n = "uint8" -> {0, 9, 255}
      [] n = "int16" -> {-MaxInt - 1, -2, 0, 77, MaxInt}
      [] n = "int32" -> {-70000, -1, 0, 70000}

\* what the reader of type n returns for the scalar x
ReadOf(n, x0) == IF n = "bool" THEN Got(x0 # 0) ELSE Got(x0)

ScalarKinds == {"Bool"} \cup IntKinds \cup UintKinds

\* C16: the round trip through an interface value: for a scalar x of kind K,
\* the reader of K returns x of ValueOf(x); and for a handle of kind K that
\* holds x, inline or behind a pointer, the reader of K returns x of
\* ValueOf(h.Interface()).
C16_RoundTrip ==
    /\ \A n \in {"bool", "uint8", "int16", "int32"} : \A x0 \in ScalarValues(n) :
          LET b == Boxed(mem, Ty(n), LE(x0, Size(Ty(n))))
          IN  ReadAttempt(b.mem, ValueOf(b.i)) = ReadOf(n, x0)
    /\ (VKind(h) \in ScalarKinds /\ isExported(h) /\ ReadAttempt(mem, h).err = "ok") =>
          LET i == Interface(mem, h)
          IN  /\ i.err = "ok"
              /\ i.val.typecode = h.typecode
              /\ ReadAttempt(mem, ValueOf(i.val)) = ReadAttempt(mem, h)

\* a state where SetInt has stored -2 in an element of a slice: the handle
\* holds it behind a pointer and Interface loads it into the word
C16_Witness ==
    /\ last = [op |-> "SetInt", err |-> "ok"]
    /\ VKind(h) = "Int16"
    /\ isIndirect(h) /\ isExported(h)
    /\ Int_(mem, h) = Got(-2)
    /\ Interface(mem, h) = Got(Iface(Ty("int16"), WordMod - 2))

\* C17: Set tests the types from the source to the destination: v.Set(x) on
\* an addressable v succeeds when x's type is assignable to v's type, and v
\* then holds x's value; else it fails with a type mismatch and the memory is
\* as before.
C17_SetDirection ==
    isIndirect(h) =>
        \A a \in ArgHandles \ {ZeroValue} :
            LET r == Set(mem, h, a)
            IN  IF AssignableTo(a.typecode, h.typecode)
                THEN r.err = "ok" /\ DynRead(r.mem, h) = DynRead(mem, a)
                ELSE r = Fail("TypeMismatch", mem)

(***************************************************************************)
(* Claims about the key strategy of a map.                                 *)
(***************************************************************************)
\* the call failed with a type mismatch and left the memory and the maps
KeyRefused(r) == r = MRes("TypeMismatch", ZeroValue, mem, maps)

\* C18: the key strategy of a map is fixed when the map is made: MapIndex
\* and SetMapIndex fail with a type mismatch, the map unchanged, when the key
\* handle's type is not the map's key type, and SetMapIndex also for an
\* element that is not the zero handle and not of the map's element type;
\* for a key they accept, the family of engine entry points they call
\* (string, binary, interface) is the one the map was made with.
C18_KeyStrategy ==
    VKind(h) = "Map" =>
        \A k \in KeyArgs :
            IF k.typecode # key(h.typecode)
            THEN /\ KeyRefused(MapIndex(mem, maps, h, k))
                 /\ \A e \in ElemArgs : KeyRefused(SetMapIndex(mem, maps, h, k, e))
            ELSE /\ pointer(mem, h) \in DOMAIN maps
                 /\ MapKeyArg(mem, k).alg = maps[pointer(mem, h)].alg
                 /\ MapIndex(mem, maps, h, k).err = "ok"
                 /\ \A e \in ElemArgs :
                       LET r == SetMapIndex(mem, maps, h, k, e)
                       IN  IF e # ZeroValue /\ e.typecode # elem(h.typecode)
                           THEN KeyRefused(r)
                           ELSE r.err = "ok"

\* a state where the program has made a map with string keys, stored an
\* element in it, and a SetMapIndex has then been refused
C18_Witness ==
    /\ last = [op |-> "SetMapIndex", err |-> "TypeMismatch"]
    /\ h.typecode = Ty("map[string]int16")
    /\ maps[pointer(mem, h)].alg = hashmapAlgorithmString
    /\ Cardinality(StoredIn(mem, h)) = 1

(***************************************************************************)
(* Claims about the representation of a handle and Index on an array.      *)
(***************************************************************************)
\* the handle's data reference is a pointer to its bytes
ByReference(v) == isIndirect(v) \/ Size(v.typecode) > PtrSize

\* the representation of the handle v is sound in the memory m: a pointer to
\* bytes that lie in memory, or the bytes in the word and nothing else
RepOK(m, v) ==
    IsValid(v) =>
        IF ByReference(v)
        THEN v.value # 0 /\ ValidRange(m, v.value, Size(v.typecode))
        ELSE v.value < Pow256(Size(v.typecode))

\* the handle r.v returned for the part of the handle v that lies off bytes
\* into v holds that part's bytes, by reference at v's address + off when it
\* is by reference
PartOK(m, v, r, off) ==
    /\ RepOK(r.mem, r.v)
    /\ ArgBytes(r.mem, r.v).bytes
         = SubSeq(ArgBytes(m, v).bytes, off + 1, off + Size(r.v.typecode))
    /\ ByReference(r.v) => r.v.value = v.value + off

\* C19: the representation of every handle the constructors and the
\* navigation calls produce: the data reference points at the value's bytes
\* if and only if the Indirect flag is set or the type is wider than a word,
\* else it holds the bytes in the word; a handle Field returns holds the
\* bytes of the field, a handle Index returns of an array holds the bytes of
\* an element of the array.
C19_Representation ==
    /\ RepOK(mem, h)
    /\ (VKind(h) = "Struct" /\ RepOK(mem, h)) =>
          \A i \in 0..(NumFieldOf(h.typecode) - 1) :
              LET r == Field(mem, h, i)
              IN  r.err = "ok" /\ PartOK(mem, h, r, rawField(h.typecode, i).offset)
    /\ (VKind(h) = "Array" /\ RepOK(mem, h)) =>
          \A i \in Idx :
              LET r == Index(mem, h, i)
              IN  r.err = "ok" =>
                    \E k \in 0..(TypeLen(h.typecode) - 1) :
                        PartOK(mem, h, r, k * Size(elem(h.typecode)))
    /\ VKind(h) = "Slice" =>
          \A i \in Idx :
              LET r == Index(mem, h, i)
              IN  r.err = "ok" => isIndirect(r.v) /\ RepOK(r.mem, r.v)
    /\ \A p \in NavStep(mem, h) : RepOK(p.mem, p.v)
    /\ \A t \in NewTypes : RepOK(New(mem, t).mem, New(mem, t).v)
                           /\ RepOK(Zero(mem, t).mem, Zero(mem, t).v)

\* C20: Index(i) on an array with i outside [0, Len()) fails, and no handle
\* Index returns of an array has its data reference outside the array.
C20_ArrayIndexBounds ==
    VKind(h) = "Array" =>
        \A i \in Idx :
            LET r == Index(mem, h, i)
                last_ == h.value + Size(h.typecode) - Size(elem(h.typecode))
            IN  /\ (i < 0 \/ i >= TypeLen(h.typecode)) => r.err # "ok"
                /\ (r.err = "ok" /\ ByReference(r.v)) => r.v.value \in h.value..last_

(***************************************************************************)
(* The entry points of the wasm scheduler (src/unnamed/part_000).          *)
(* The host calls resume and go_scheduler; the build has one thread, so a  *)
(* second call can only begin where the first one has handed control to    *)
(* the host: inside a task that scheduler() or minSched() is running.      *)
(* A call in progress is a frame of the stack:                             *)
(*   entry    the entry point called                                       *)
(*   pc       the statement it is at                                       *)
(*   task     the task its go statement spawned (0: none)                  *)
(*   nested   what its test of wasmNested read                             *)
(*   wrote    how many times it assigned wasmNested                        *)
(*   running  the task its scheduler loop is running (0: none)             *)
(***************************************************************************)
MaxDepth == 3
MaxEntries == 4

\* the state of the reflect layer, which the scheduler leaves alone
reflectVars == <<mem, maps, h, x, iter, last, steps, stored, yielded, lastNext>>

Frame(e) == [entry |-> e, pc |-> IF e = "resume" THEN "go" ELSE "test",
             task |-> 0, nested |-> FALSE, wrote |-> 0, running |-> 0]

Depth == Len(stack)
Top == stack[Depth]
SetTop(f) == [stack EXCEPT ![Depth] = f]

\* the host calls an entry point: from outside, or from a task that is running
Enter(e) ==
    /\ Depth < MaxDepth
    /\ entered.resume + entered.go_scheduler < MaxEntries
    /\ Depth > 0 => Top.pc \in {"scheduler", "minSched"} /\ Top.running # 0
    /\ stack' = Append(stack, Frame(e))
    /\ entered' = [entered EXCEPT ![e] = @ + 1]
    /\ UNCHANGED <<wasmNested, runqueue, reflectVars>>

\* go func() { handleEvent() }()
GoHandleEvent ==
    /\ Depth > 0 /\ Top.pc = "go"
    /\ LET t == entered.handleEvent + 1
       IN  /\ runqueue' = Append(runqueue, t)
           /\ entered' = [entered EXCEPT !.handleEvent = t]
           /\ stack' = SetTop([Top EXCEPT !.task = t, !.pc = "test"])
    /\ UNCHANGED <<wasmNested, reflectVars>>

\* the entry points without their guard: every call goes on to scheduler()
TestNestedIgnored ==
    /\ Depth > 0 /\ Top.pc = "test"
    /\ stack' = SetTop([Top EXCEPT !.nested = FALSE, !.pc = "set"])
    /\ UNCHANGED <<wasmNested, runqueue, entered, reflectVars>>

\* if wasmNested { minSched(); return }
TestNested ==
    /\ Depth > 0 /\ Top.pc = "test"
    /\ stack' = SetTop([Top EXCEPT !.nested = wasmNested,
                                   !.pc = IF wasmNested THEN "minSched" ELSE "set"])
    /\ UNCHANGED <<wasmNested, runqueue, entered, reflectVars>>

\* wasmNested = true, and scheduler() begins
SetNested ==
    /\ Depth > 0 /\ Top.pc = "set"
    /\ wasmNested' = TRUE
    /\ stack' = SetTop([Top EXCEPT !.wrote = @ + 1, !.pc = "scheduler"])
    /\ UNCHANGED <<runqueue, entered, reflectVars>>

\* scheduler() and minSched() take the next task of the run queue and run it
RunTask ==
    /\ Depth > 0 /\ Top.pc \in {"scheduler", "minSched"} /\ Top.running = 0
    /\ runqueue # <<>>
    /\ stack' = SetTop([Top EXCEPT !.running = Head(runqueue)])
    /\ runqueue' = Tail(runqueue)
    /\ UNCHANGED <<wasmNested, entered, reflectVars>>

\* the running task ends
TaskEnds ==
    /\ Depth > 0 /\ Top.pc \in {"scheduler", "minSched"} /\ Top.running # 0
    /\ stack' = SetTop([Top EXCEPT !.running = 0])
    /\ UNCHANGED <<wasmNested, runqueue, entered, reflectVars>>

\* the running task yields: it is back in the run queue
TaskYields ==
    /\ Depth > 0 /\ Top.pc \in {"scheduler", "minSched"} /\ Top.running # 0
    /\ runqueue' = Append(runqueue, Top.running)
    /\ stack' = SetTop([Top EXCEPT !.running = 0])
    /\ UNCHANGED <<wasmNested, entered, reflectVars>>

\* scheduler() returns: the call is at wasmNested = false
SchedulerReturns ==
    /\ Depth > 0 /\ Top.pc = "scheduler" /\ Top.running = 0
    /\ stack' = SetTop([Top EXCEPT !.pc = "clear"])
    /\ UNCHANGED <<wasmNested, runqueue, entered, reflectVars>>

\* wasmNested = false
ClearNested ==
    /\ Depth > 0 /\ Top.pc = "clear"
    /\ wasmNested' = FALSE
    /\ stack' = SetTop([Top EXCEPT !.wrote = @ + 1, !.pc = "return"])
    /\ UNCHANGED <<runqueue, entered, reflectVars>>

\* minSched() returns: the call is at its return
MinSchedReturns ==
    /\ Depth > 0 /\ Top.pc = "minSched" /\ Top.running = 0
    /\ stack' = SetTop([Top EXCEPT !.pc = "return"])
    /\ UNCHANGED <<wasmNested, runqueue, entered, reflectVars>>

\* the entry point returns to the host
Return ==
    /\ Depth > 0 /\ Top.pc = "return"
    /\ stack' = SubSeq(stack, 1, Depth - 1)
    /\ UNCHANGED <<wasmNested, runqueue, entered, reflectVars>>

\* the call in progress is a call of e
In(e) == Depth > 0 /\ Top.entry = e

\* the call in progress is inside the scheduler loop f
Inside(f) == Depth > 0 /\ Top.pc = f

resume ==
    \/ Enter("resume")
    \/ In("resume") /\ GoHandleEvent
    \/ In("resume") /\ TestNested
    \/ In("resume") /\ SetNested
    \/ In("resume") /\ ClearNested
    \/ In("resume") /\ Return

go_scheduler ==
    \/ Enter("go_scheduler")
    \/ In("go_scheduler") /\ TestNested
    \/ In("go_scheduler") /\ SetNested
    \/ In("go_scheduler") /\ ClearNested
    \/ In("go_scheduler") /\ Return

scheduler ==
    \/ Inside("scheduler") /\ RunTask
    \/ Inside("scheduler") /\ TaskEnds
    \/ Inside("scheduler") /\ TaskYields
    \/ SchedulerReturns

minSched ==
    \/ Inside("minSched") /\ RunTask
    \/ Inside("minSched") /\ TaskEnds
    \/ Inside("minSched") /\ TaskYields
    \/ MinSchedReturns

NextSched == resume \/ go_scheduler \/ scheduler \/ minSched

SpecSched == Init /\ [][NextSched]_vars

(***************************************************************************)
(* Claims about the guard of the scheduler's entry points.                 *)
(***************************************************************************)
\* the calls in progress that are inside scheduler()
Active == {i \in 1..Depth : stack[i].pc = "scheduler"}

\* the calls in progress that have set wasmNested and not yet cleared it
Holding == {i \in 1..Depth : stack[i].pc \in {"scheduler", "clear"}}

\* the calls in progress that are past their go statement or have none
Scheduling == {i \in 1..Depth : stack[i].pc # "go"}

\* C21: however the host nests its calls of resume and go_scheduler, at most
\* one call is inside scheduler(); a call that began while another was inside
\* scheduler() read wasmNested as true, went through minSched() and never
\* assigned wasmNested, and every other call went through scheduler();
\* wasmNested is true while a call is between its wasmNested = true and its
\* wasmNested = false, in particular while scheduler() is active, and false
\* otherwise, so it is false when the outermost call returns and when no call
\* is in progress; and every call of resume has spawned exactly one task of
\* its own, running handleEvent, before it tests the guard, while
\* go_scheduler spawns none.
C21_ReentrancyGuard ==
    /\ Cardinality(Active) <= 1
    /\ \A i \in 1..Depth :
         LET f == stack[i]
         IN  f.pc \notin {"go", "test"} =>
               /\ f.nested <=> (\E j \in 1..(i - 1) : j \in Active)
               /\ f.nested => f.pc \in {"minSched", "return"} /\ f.wrote = 0
               /\ ~f.nested => f.pc \in {"set", "scheduler", "clear", "return"}
    /\ wasmNested <=> Holding # {}
    /\ (Depth = 0 \/ stack[1].pc = "return") => ~wasmNested
    /\ \A i \in 1..Depth :
         LET f == stack[i]
         IN  /\ f.entry = "go_scheduler" => f.task = 0
             /\ f.entry = "resume" => (f.task # 0 <=> i \in Scheduling)
             /\ f.task # 0 => \A j \in 1..Depth : stack[j].task = f.task => j = i
    /\ entered.handleEvent
         = entered.resume - Cardinality({i \in 1..Depth : stack[i].pc = "go"})

\* resume and then go_scheduler were called from tasks of the outermost call:
\* the outermost resume is inside scheduler(), the nested resume has spawned
\* its task and runs a task in minSched(), the go_scheduler called from that
\* task is in minSched() too
C21_Witness ==
    /\ Depth = 3
    /\ stack[1].entry = "resume" /\ stack[1].pc = "scheduler"
    /\ stack[2].entry = "resume" /\ stack[2].pc = "minSched"
    /\ stack[2].task = 2 /\ stack[2].running # 0
    /\ stack[3].entry = "go_scheduler" /\ stack[3].pc = "minSched"
    /\ wasmNested
    /\ entered = [resume |-> 2, go_scheduler |-> 1, handleEvent |-> 2]

=============================================================================
